---- MODULE Spec2Model ----
(***************************************************************************)
(* A model of monterey (mjackson/monterey): classical-inheritance helpers  *)
(* on Function.prototype (src/index.js) and the per-object event emitter   *)
(* and mixins on Object (src/monterey.js).                                  *)
(*                                                                         *)
(* The program loads one revision of the library (lib): src/index.js, the   *)
(* guid-based emitter of src/monterey.js (lines 6-319), or the second      *)
(* revision in src/monterey.js (lines 321-623) with mixins and an emitter  *)
(* that splices. Each revision has its own variables; the specifications   *)
(* at the end of the module pick the calls a program makes.                *)
(***************************************************************************)
EXTENDS Integers, Sequences, FiniteSets, TLC

VARIABLES
    \* ---- inheritance (src/index.js) ----
    objs,      \* the heap of prototype objects and instances, by object id
    fnProto,   \* F.prototype, for every class entity F
    statics,   \* the own static properties of every class entity
    stamp,     \* F.__montereyName__, for every class entity F
    body,      \* what the invocation body of F does
    capParent, \* the `parent` a synthesized extend body closes over
    born,      \* the classes extend has returned so far
    last,      \* the call made last, with what it observed
    \* ---- which revision of the library the program has loaded ----
    lib,       \* "index" (src/index.js), "guid" (src/monterey.js 6-319),
               \* "splice" (src/monterey.js 321-623)
    \* ---- events (src/monterey.js 103-198) ----
    reg,       \* whether the object has its __monterey_events__ registry yet
    events,    \* the registry: per object and type, nothing, one function
               \* or an array of functions
    guidOf,    \* handler.__monterey_guid__, 0 when it has none
    guidCtr,   \* the guid counter
    stack,     \* the dispatches under way, innermost last
    evLast,    \* what the last step of the emitter was: a call completed
               \* (with what it observed), or a handler entered
    \* ---- second revision (src/monterey.js 321-623) ----
    events2,   \* object._events: whether it exists, and per type its array
    fnGuid,    \* fn._guid (an enumerable own property), 0 when it has none
    guid2,     \* the guid counter
    mixinsOf,  \* object._mixins: whether it exists, and the array
    merged,    \* the own property m of a plain object: the function whose
               \* prototype it was merged from
    proto2,    \* fn.prototype: its parent function and whether it has an own
               \* enumerable m
    last2,     \* the call made last, with what it observed
    \* ---- the identity of the event registry (either revision) ----
    ownEvents, \* the registry an object holds as its own property, or none
    registries,\* the registries created so far: the handlers of one type
    onLog,     \* the handlers registered on each object by on, in order
    lastReg,   \* the call made last, with what it observed
    \* ---- objects of the later revisions: extend, new, mixin, is ----
    heap3,     \* prototype objects, instances and plain objects, by id
    protoOf3,  \* fn.prototype, for every function
    made3,     \* the functions extend has returned
    last3      \* the call made last, with what it observed

inhVars == <<objs, fnProto, statics, stamp, body, capParent, born, last>>

evVars == <<reg, events, guidOf, guidCtr, stack, evLast>>

v2Vars == <<events2, fnGuid, guid2, mixinsOf, merged, proto2, last2>>

regVars == <<ownEvents, registries, onLog, lastReg>>

mixVars == <<heap3, protoOf3, made3, last3>>

vars == <<inhVars, lib, evVars, v2Vars, regVars, mixVars>>

-----------------------------------------------------------------------------
(* Bounds *)

MaxObjs == 7      \* objects on the heap (Object.prototype included)
MaxExtend == 2    \* classes extend may create
MaxRegs == 3      \* handler registrations alive at a time, over all objects
MaxDepth == 2     \* dispatches nested in one another
MaxReentry == 2   \* calls into the emitter made by the handlers of one dispatch
MaxMixins == 2    \* functions mixed in to one object

-----------------------------------------------------------------------------
(* The universe of the inheritance model *)

Null == 0                     \* no object (null / undefined)
NoFn == "none"                \* no function (undefined)
ObjectProto == 1              \* Object.prototype

Roots == {"A", "B", "C"}      \* functions the user declares: function () {}
ExtPool == <<"E1", "E2", "E3">>
ExtClasses == {ExtPool[i] : i \in 1..Len(ExtPool)}
Classes == Roots \cup ExtClasses
AllFns == Classes \cup {"Object"}

StaticNames == {"s"}
StaticVals == {"v1", "v2"}
Undefined == "undefined"
NonCallables == {Undefined, "str"}

NoStatic == [has |-> FALSE, val |-> Undefined, enum |-> FALSE]
\* A function value: a class entity (cls), or a method created on the prototype
\* object `at` with its declared name and its __montereyName__ stamp.
NoMethod == [cls |-> NoFn, at |-> Null, name |-> "", stamp |-> NoFn]
ClassFn(F) == [NoMethod EXCEPT !.cls = F]

\* The classes that exist: the declared ones and those extend has returned.
Live == Roots \cup born

isFunction(v) == v \in AllFns

-----------------------------------------------------------------------------
(* Property lookup along the prototype chain *)

RECURSIVE ChainOf(_, _)
\* The prototype chain of object o, o first ([[GetPrototypeOf]] repeated).
ChainOf(os, o) ==
    IF o = Null THEN <<>> ELSE <<o>> \o ChainOf(os, os[o].proto)

\* Whether the object record r has an own property `key`.
HasOwn(r, key) ==
    IF key = "constructor" THEN r.ctor # NoFn
    ELSE IF key = "m" THEN r.m # NoMethod
    ELSE IF key = "super" THEN r.super # Null
    ELSE FALSE

\* First object of the chain of o with an own property `key`, or Null.
FirstWith(os, o, key) ==
    LET ch == ChainOf(os, o)
        hits == {i \in 1..Len(ch) : HasOwn(os[ch[i]], key)}
    IN IF hits = {} THEN Null
       ELSE ch[CHOOSE i \in hits : \A j \in hits : i <= j]

\* proto[key] for the keys the model has: "constructor", "m", or anything else
\* (a miss: undefined).
Lookup(os, o, key) ==
    LET h == FirstWith(os, o, key)
    IN IF h = Null THEN NoMethod
       ELSE IF key = "constructor" THEN ClassFn(os[h].ctor)
       ELSE IF key = "m" THEN os[h].m
       ELSE NoMethod

\* F.s : own static properties only (Function.prototype holds none of them).
GetStatic(st, F, n) == st[F][n].val

-----------------------------------------------------------------------------
(* src/index.js *)

\* addProperty(F, name, value) on a class entity: a non-enumerable own property.
addProperty(st, F, n, v) ==
    [st EXCEPT ![F][n] = [has |-> TRUE, val |-> v, enum |-> FALSE]]

\* The names for-in visits on `parent` and hasOwnProperty keeps.
OwnEnumerable(st, F) == {n \in StaticNames : st[F][n].has /\ st[F][n].enum}

\* addProperties(child, parent): every own enumerable property of parent is
\* defined on child with addProperty (so it is NOT enumerable on child).
addProperties(st, child, parent) ==
    [st EXCEPT ![child] =
        [n \in StaticNames |->
            IF n \in OwnEnumerable(st, parent)
            THEN [has |-> TRUE, val |-> st[parent][n].val, enum |-> FALSE]
            ELSE st[child][n]]]

\* The __montereyName__ stamps after child.inherit(parent): addProperty stamps
\* every function it is given as a value with the property's name (lines
\* 15-16), the values addProperties copies from parent first, then child, which
\* is made the constructor property of its new prototype.
inheritStamps(st, sm, child, parent) ==
    [[F \in AllFns |->
        IF \E n \in OwnEnumerable(st, parent) : st[parent][n].val = F
        THEN CHOOSE n \in OwnEnumerable(st, parent) : st[parent][n].val = F
        ELSE sm[F]] EXCEPT ![child] = "constructor"]

NewObj(p, k) ==
    [proto |-> p, ctor |-> NoFn, super |-> Null, m |-> NoMethod, kind |-> k]

\* InheritHeap with the prototype created from Object.prototype instead of
\* parent.prototype.
InheritHeapUnlinked(os, fp, child, parent) ==
    Append(os, [NewObj(ObjectProto, "proto") EXCEPT
                   !.ctor = child, !.super = fp[parent]])

\* InheritHeap without the constructor property restored.
InheritHeapNoCtor(os, fp, child, parent) ==
    Append(os, [NewObj(fp[parent], "proto") EXCEPT !.super = fp[parent]])

\* The heap after child.inherit(parent): Object.create(parent.prototype), then
\* the constructor property, then the super getter closing over parent.prototype.
InheritHeap(os, fp, child, parent) ==
    Append(os, [NewObj(fp[parent], "proto") EXCEPT
                   !.ctor = child, !.super = fp[parent]])

\* superHack: the value of `this.super` read by `caller` on the object `this`.
\* The getter found first on the chain of `this` answers, with the `proto` it
\* closes over; the key is caller.__montereyName__ || caller.name.
superKey(st, caller) ==
    IF caller.cls # NoFn
    THEN (IF st[caller.cls] # NoFn THEN st[caller.cls] ELSE "")
    ELSE (IF caller.stamp # NoFn THEN caller.stamp ELSE caller.name)

superHack(os, st, this, caller) ==
    LET g == FirstWith(os, this, "super")
    IN IF g = Null THEN NoMethod
       ELSE Lookup(os, os[g].super, superKey(st, caller))

\* A call stack deeper than this can only be a dispatch that repeats itself:
\* the next callee depends on the callee alone, and there are only so many.
StackLimit == Cardinality(AllFns) + 1

RECURSIVE RunCtor(_, _, _, _, _, _, _)
\* The bodies run, in call order, when f is invoked on `this`, and how the
\* call ends: "ok", "TypeError" (undefined is not a function) or "RangeError"
\* (the call stack is exhausted).
RunCtor(os, st, bd, cp, this, f, fuel) ==
    IF fuel = 0 THEN [trace |-> <<>>, outcome |-> "RangeError"]
    ELSE IF bd[f] = "root" THEN [trace |-> <<f>>, outcome |-> "ok"]
    ELSE LET callee == IF bd[f] = "default" THEN cp[f]
                       ELSE superHack(os, st, this, ClassFn(f)).cls
         IN IF callee = NoFn
            THEN [trace |-> <<f>>, outcome |-> "TypeError"]
            ELSE LET r == RunCtor(os, st, bd, cp, this, callee, fuel - 1)
                 IN [trace |-> <<f>> \o r.trace, outcome |-> r.outcome]

\* this.isParentOf(fn): this.prototype === Object.getPrototypeOf(fn.prototype)
isParentOf(os, fp, this, fn) == fp[this] = os[fp[fn]].proto

\* this.isChildOf(fn)
isChildOf(os, fp, this, fn) == isParentOf(os, fp, fn, this)

\* parentGetter reading constructor from this.prototype itself.
parentGetterOwn(os, fp, this) ==
    LET proto == fp[this]
    IN IF proto = Null THEN NoFn ELSE Lookup(os, proto, "constructor").cls

\* The parent getter: the constructor found from the prototype of
\* this.prototype, or NoFn for null.
parentGetter(os, fp, this) ==
    LET proto == os[fp[this]].proto
    IN IF proto = Null THEN NoFn ELSE Lookup(os, proto, "constructor").cls

\* isAncestorOf looking one level up only.
isAncestorOfDirect(os, fp, this, fn) == fp[this] = os[fp[fn]].proto

\* this.isAncestorOf(fn): this.prototype.isPrototypeOf(fn.prototype), that is,
\* this.prototype is on the chain strictly above fn.prototype.
isAncestorOf(os, fp, this, fn) ==
    \E k \in 1..Len(ChainOf(os, os[fp[fn]].proto)) :
        ChainOf(os, os[fp[fn]].proto)[k] = fp[this]

\* this.isDescendantOf(fn)
isDescendantOf(os, fp, this, fn) == isAncestorOf(os, fp, fn, this)

\* A walk along parent longer than this has met some function twice, and
\* then goes round for ever: the next function depends on the function alone.
AncestorsLimit == Cardinality(AllFns)

RECURSIVE ancestorsFrom(_, _, _, _)
\* The do-while loop of the ancestors getter from fn on: the functions pushed
\* and whether the loop ends ("ok") or keeps pushing until the array cannot
\* grow ("diverges").
ancestorsFrom(os, fp, fn, fuel) ==
    IF fuel = 0 THEN [trace |-> <<>>, outcome |-> "diverges"]
    ELSE LET next == parentGetter(os, fp, fn)
         IN IF next = NoFn THEN [trace |-> <<fn>>, outcome |-> "ok"]
            ELSE LET r == ancestorsFrom(os, fp, next, fuel - 1)
                 IN [trace |-> <<fn>> \o r.trace, outcome |-> r.outcome]

\* The ancestors getter.
ancestorsGetter(os, fp, this) == ancestorsFrom(os, fp, this, AncestorsLimit)

\* i instanceof F: F.prototype is on the chain above i.
instanceOf(os, fp, i, F) ==
    \E k \in 1..Len(ChainOf(os, os[i].proto)) : ChainOf(os, os[i].proto)[k] = fp[F]

-----------------------------------------------------------------------------
(* The calls a program makes *)

NoCall == [op |-> "none", recv |-> NoFn, arg |-> NoFn, threw |-> FALSE,
           enumS |-> {}, trace |-> <<>>, outcome |-> "none", inst |-> Null,
           caller |-> NoMethod, result |-> NoMethod, given |-> NoFn]

Record(c) == last' = c

\* Inherit with the members of the old prototype carried over to the new one.
InheritKeepMembers(child, parent) ==
    /\ child \in Live /\ parent \in Live \cup {"Object"}
    /\ Len(objs) < MaxObjs
    /\ statics' = addProperties(statics, child, parent)
    /\ objs' = [InheritHeap(objs, fnProto, child, parent) EXCEPT
                   ![Len(objs) + 1].m = objs[fnProto[child]].m]
    /\ fnProto' = [fnProto EXCEPT ![child] = Len(objs) + 1]
    /\ stamp' = inheritStamps(statics, stamp, child, parent)
    /\ Record([NoCall EXCEPT !.op = "inherit", !.recv = child, !.arg = parent,
                             !.enumS = OwnEnumerable(statics, parent)])
    /\ UNCHANGED <<body, capParent, born>>

\* child.inherit(parent), parent a function.
Inherit(child, parent) ==
    /\ child \in Live /\ parent \in Live \cup {"Object"}
    /\ Len(objs) < MaxObjs
    /\ statics' = addProperties(statics, child, parent)
    /\ objs' = InheritHeap(objs, fnProto, child, parent)
    /\ fnProto' = [fnProto EXCEPT ![child] = Len(objs) + 1]
    /\ stamp' = inheritStamps(statics, stamp, child, parent)
    /\ Record([NoCall EXCEPT !.op = "inherit", !.recv = child, !.arg = parent,
                             !.enumS = OwnEnumerable(statics, parent)])
    /\ UNCHANGED <<body, capParent, born>>

\* InheritInvalid validating after the prototype was replaced.
InheritInvalidLate(child, v) ==
    /\ child \in Live /\ v \in NonCallables
    /\ fnProto' = [fnProto EXCEPT ![child] = ObjectProto]
    /\ Record([NoCall EXCEPT !.op = "inherit", !.recv = child, !.arg = v,
                             !.threw = TRUE])
    /\ UNCHANGED <<objs, statics, stamp, body, capParent, born>>

\* child.inherit(v), v not a function: throws before anything else.
InheritInvalid(child, v) ==
    /\ child \in Live /\ v \in NonCallables
    /\ ~isFunction(v)
    /\ Record([NoCall EXCEPT !.op = "inherit", !.recv = child, !.arg = v,
                             !.threw = TRUE])
    /\ UNCHANGED <<objs, fnProto, statics, stamp, body, capParent, born>>

\* Extend with `child` declared once for all calls instead of in each call.
ExtendShared(parent, hasCtor, hasM) ==
    /\ parent \in Live \cup {"Object"}
    /\ Cardinality(born) < MaxExtend
    /\ Len(objs) < MaxObjs
    /\ LET child == ExtPool[1]
           id == Len(objs) + 1
           os1 == InheritHeap(objs, fnProto, child, parent)
       IN /\ statics' = addProperties(statics, child, parent)
          /\ objs' = [os1 EXCEPT ![id].m =
                        IF hasM THEN [NoMethod EXCEPT !.at = id, !.stamp = "m"]
                        ELSE NoMethod]
          /\ fnProto' = [fnProto EXCEPT ![child] = id]
          /\ stamp' = inheritStamps(statics, stamp, child, parent)
          /\ body' = [body EXCEPT ![child] = IF hasCtor THEN "super" ELSE "default"]
          /\ capParent' = [capParent EXCEPT ![child] = parent]
          /\ born' = born \cup {child}
          /\ Record([NoCall EXCEPT !.op = "extend", !.recv = parent, !.arg = child,
                                   !.given = IF hasCtor THEN child ELSE NoFn,
                                   !.enumS = OwnEnumerable(statics, parent)])

\* parent.extend(properties): properties has an own constructor, a function
\* written in the call (which calls this.super()), or not, and a method m or
\* not.
Extend(parent, hasCtor, hasM) ==
    /\ parent \in Live \cup {"Object"}
    /\ Cardinality(born) < MaxExtend
    /\ Len(objs) < MaxObjs
    /\ LET child == ExtPool[Cardinality(born) + 1]
           id == Len(objs) + 1
           os1 == InheritHeap(objs, fnProto, child, parent)
       IN /\ statics' = addProperties(statics, child, parent)
          /\ objs' = [os1 EXCEPT ![id].m =
                        IF hasM THEN [NoMethod EXCEPT !.at = id, !.stamp = "m"]
                        ELSE NoMethod]
          /\ fnProto' = [fnProto EXCEPT ![child] = id]
          /\ stamp' = inheritStamps(statics, stamp, child, parent)
          /\ body' = [body EXCEPT ![child] = IF hasCtor THEN "super" ELSE "default"]
          /\ capParent' = [capParent EXCEPT ![child] = parent]
          /\ born' = born \cup {child}
          /\ Record([NoCall EXCEPT !.op = "extend", !.recv = parent, !.arg = child,
                                   !.given = IF hasCtor THEN child ELSE NoFn,
                                   !.enumS = OwnEnumerable(statics, parent)])

\* parent.extend({constructor: ctor}), ctor a function that exists already:
\* ctor is the child, made to inherit and returned.
ExtendWith(parent, ctor) ==
    /\ parent \in Live \cup {"Object"} /\ ctor \in Live
    /\ Len(objs) < MaxObjs
    /\ statics' = addProperties(statics, ctor, parent)
    /\ objs' = InheritHeap(objs, fnProto, ctor, parent)
    /\ fnProto' = [fnProto EXCEPT ![ctor] = Len(objs) + 1]
    /\ stamp' = inheritStamps(statics, stamp, ctor, parent)
    /\ Record([NoCall EXCEPT !.op = "extend", !.recv = parent, !.arg = ctor,
                             !.given = ctor,
                             !.enumS = OwnEnumerable(statics, parent)])
    /\ UNCHANGED <<body, capParent, born>>

\* new F
New(F) ==
    /\ F \in Live
    /\ Len(objs) < MaxObjs
    /\ LET id == Len(objs) + 1
           os1 == Append(objs, NewObj(fnProto[F], "inst"))
           r == RunCtor(os1, stamp, body, capParent, id, F, StackLimit)
       IN /\ objs' = os1
          /\ Record([NoCall EXCEPT !.op = "new", !.recv = F, !.inst = id,
                                   !.trace = r.trace, !.outcome = r.outcome])
    /\ UNCHANGED <<fnProto, statics, stamp, body, capParent, born>>

\* F.s = v : an assignment creates an enumerable property, or overwrites the
\* value of the (writable) property that is there.
SetStatic(F, n, v) ==
    /\ F \in Live /\ n \in StaticNames /\ v \in StaticVals
    /\ statics' = [statics EXCEPT ![F][n] =
                      IF @.has THEN [@ EXCEPT !.val = v]
                      ELSE [has |-> TRUE, val |-> v, enum |-> TRUE]]
    /\ Record([NoCall EXCEPT !.op = "set"])
    /\ UNCHANGED <<objs, fnProto, stamp, body, capParent, born>>

\* F.s = G, G a function the program declared: the same assignment, the value
\* a function.
SetStaticFn(F, n, G) ==
    /\ F \in Live /\ n \in StaticNames /\ G \in Live
    /\ statics' = [statics EXCEPT ![F][n] =
                      IF @.has THEN [@ EXCEPT !.val = G]
                      ELSE [has |-> TRUE, val |-> G, enum |-> TRUE]]
    /\ Record([NoCall EXCEPT !.op = "set"])
    /\ UNCHANGED <<objs, fnProto, stamp, body, capParent, born>>

\* F.prototype.m = function m() {} (named) or function () {} (anonymous)
DefineMethod(F, named) ==
    /\ F \in Live
    /\ objs[fnProto[F]].m = NoMethod
    /\ objs' = [objs EXCEPT ![fnProto[F]].m =
                   [NoMethod EXCEPT !.at = fnProto[F],
                                    !.name = IF named THEN "m" ELSE ""]]
    /\ Record([NoCall EXCEPT !.op = "define"])
    /\ UNCHANGED <<fnProto, statics, stamp, body, capParent, born>>

\* The method `caller`, found on the prototype chain of the instance i and
\* running on i, reads this.super.
ReadSuper(i, caller) ==
    /\ i \in 1..Len(objs) /\ objs[i].kind = "inst"
    /\ caller # NoMethod
    /\ \E k \in 1..Len(ChainOf(objs, i)) : objs[ChainOf(objs, i)[k]].m = caller
    /\ Record([NoCall EXCEPT !.op = "super", !.inst = i, !.caller = caller,
                             !.result = superHack(objs, stamp, i, caller)])
    /\ UNCHANGED <<objs, fnProto, statics, stamp, body, capParent, born>>

\* F.ancestors is read.
Ancestors(F) ==
    /\ F \in Live \cup {"Object"}
    /\ LET r == ancestorsGetter(objs, fnProto, F)
       IN Record([NoCall EXCEPT !.op = "ancestors", !.recv = F,
                                !.trace = r.trace, !.outcome = r.outcome])
    /\ UNCHANGED <<objs, fnProto, statics, stamp, body, capParent, born>>

InhInit ==
    /\ objs = <<[NewObj(Null, "proto") EXCEPT !.ctor = "Object"],
                [NewObj(ObjectProto, "proto") EXCEPT !.ctor = "A"],
                [NewObj(ObjectProto, "proto") EXCEPT !.ctor = "B"],
                [NewObj(ObjectProto, "proto") EXCEPT !.ctor = "C"]>>
    /\ fnProto = [F \in AllFns |->
                    IF F = "Object" THEN 1 ELSE IF F = "A" THEN 2
                    ELSE IF F = "B" THEN 3 ELSE IF F = "C" THEN 4 ELSE Null]
    /\ statics = [F \in AllFns |-> [n \in StaticNames |-> NoStatic]]
    /\ stamp = [F \in AllFns |-> NoFn]
    /\ body = [F \in AllFns |-> "root"]
    /\ capParent = [F \in AllFns |-> NoFn]
    /\ born = {}
    /\ last = NoCall

\* A call into src/index.js leaves the rest of the program alone.
InhFrame == lib = "index" /\ UNCHANGED <<lib, evVars, v2Vars, regVars, mixVars>>

\* One disjunct per call.
DoInherit == InhFrame /\ \E c \in Classes, p \in AllFns : Inherit(c, p)
DoInheritInvalid ==
    InhFrame /\ \E c \in Classes, v \in NonCallables : InheritInvalid(c, v)
DoExtend ==
    InhFrame /\ \E p \in AllFns, hc \in BOOLEAN, hm \in BOOLEAN : Extend(p, hc, hm)
DoExtendPlain == InhFrame /\ \E p \in AllFns, hc \in BOOLEAN : Extend(p, hc, FALSE)
DoExtendWith == InhFrame /\ \E p \in AllFns, c \in Classes : ExtendWith(p, c)
DoNew == InhFrame /\ \E F \in Classes : New(F)
DoSetStatic ==
    InhFrame /\ \E F \in Classes, n \in StaticNames, v \in StaticVals : SetStatic(F, n, v)
\* The program sets a static property of its first class.
DoSetStaticBase ==
    InhFrame /\ \E n \in StaticNames, v \in StaticVals : SetStatic("A", n, v)
\* The program sets a static property of its first class to a function.
DoSetStaticFn ==
    InhFrame /\ \E n \in StaticNames, G \in Roots : SetStaticFn("A", n, G)
DoAncestors == InhFrame /\ \E F \in AllFns : Ancestors(F)
DoDefineMethod == InhFrame /\ \E F \in Classes : DefineMethod(F, TRUE)
\* The program derives the declared classes from one another in the order of
\* their declaration.
DoInheritDeclared ==
    InhFrame /\ \E pair \in {<<"B", "A">>, <<"C", "B">>, <<"C", "A">>} :
                    Inherit(pair[1], pair[2])
\* F.prototype.m = function m() {} or F.prototype.m = function () {}
DoDefineAny == InhFrame /\ \E F \in Classes, named \in BOOLEAN : DefineMethod(F, named)
DoReadSuper ==
    InhFrame /\ \E i \in 1..MaxObjs, o \in 1..Len(objs) : ReadSuper(i, objs[o].m)

-----------------------------------------------------------------------------
(* The event emitter of src/monterey.js, lines 103-198 *)

EvObjs == {"o1", "o2"}
PlainTypes == {"x", "y"}
Types == PlainTypes \cup {"newListener"}
Handlers == {"h1", "h2"}
\* A type named like a property of Object.prototype, which the registry, an
\* object literal (line 105), inherits: events["constructor"] is the function
\* Object until the registry has an entry of its own for that type.
InheritedTypes == {"constructor"}
ObjectFn == "Object"
AllTypes == Types \cup InheritedTypes
ArgLists == {<<>>, <<"a1">>}
\* What a handler may return: false, and values that are falsy but not false.
Returns == {"false", "undefined", "0"}

NoEntry == [k |-> "none", seq |-> <<>>]
FnEntry(h) == [k |-> "fn", seq |-> <<h>>]
ArrEntry(q) == [k |-> "arr", seq |-> q]

\* The handlers an entry of the registry denotes, in order.
HandlersOf(ev, o, t) == ev[o][t].seq

\* events[type] as the code reads it: the registry's own entry, or what the
\* registry inherits under that name.
entryOf(ev, o, t) ==
    IF ev[o][t].k = "none" /\ t \in InheritedTypes THEN FnEntry(ObjectFn)
    ELSE ev[o][t]

RECURSIVE SumLen(_, _)
SumLen(ev, S) ==
    IF S = {} THEN 0
    ELSE LET p == CHOOSE p \in S : TRUE
         IN Len(ev[p[1]][p[2]].seq) + SumLen(ev, S \ {p})

\* Registrations alive, and those a pending `on` is about to add.
Regs == SumLen(events, EvObjs \X AllTypes)
       + Cardinality({k \in 1..Len(stack) : stack[k].cont.on})

NoCont == [on |-> FALSE, obj |-> "none", type |-> "none", h |-> "none"]

\* One dispatch under way (Object.trigger, lines 176-198): `seq` is the
\* captured `handlers` (one function, or an array that stays the registry's own
\* array while `live`), i the handler running, len the cached length.
\* snap, calls, mutated and reent are observations: the handlers registered
\* when the dispatch started, the invocations made, whether on/off touched
\* this object and type meanwhile, and how many calls its handlers made.
\* cont is the `on` call waiting for a "newListener" dispatch to end.
Frame(o, t, args, e, cont) ==
    [obj |-> o, type |-> t, args |-> args, k |-> e.k, seq |-> e.seq,
     live |-> e.k = "arr", i |-> 1, len |-> Len(e.seq),
     snap |-> e.seq, calls |-> <<>>, mutated |-> FALSE, reent |-> 0,
     cont |-> cont]

NoEvCall == [op |-> "none", obj |-> "none", type |-> "none", h |-> "none",
             threw |-> FALSE, args |-> <<>>, snap |-> <<>>, calls |-> <<>>,
             mutated |-> FALSE]

\* A step that completes no call: a handler is entered.
Entered == [NoEvCall EXCEPT !.op = "enter"]

\* The running handler (if any) has made one more call.
Called(st) == IF st = <<>> THEN st ELSE [st EXCEPT ![Len(st)].reent = @ + 1]

\* The program may call, and so may the running handler while it has calls left.
MayCall(o, t) ==
    \/ stack = <<>>
    \/ /\ stack # <<>>
       /\ stack[Len(stack)].reent < MaxReentry
       /\ stack[Len(stack)].obj = o /\ stack[Len(stack)].type = t

\* Object.events(object): the registry is created on first access.
Touch(o) == reg' = [reg EXCEPT ![o] = TRUE]

\* onAdd putting the handler first (unshift).
onAddFront(ev, o, t, h) ==
    LET e == entryOf(ev, o, t)
    IN [ev EXCEPT ![o][t] =
           IF e.k = "none" THEN FnEntry(h) ELSE ArrEntry(<<h>> \o e.seq)]

\* Lines 125-133 of Object.on: the first handler is stored bare, the second
\* makes an array, later ones are pushed onto that array.
onAdd(ev, o, t, h) ==
    LET e == entryOf(ev, o, t)
    IN [ev EXCEPT ![o][t] =
           IF e.k = "none" THEN FnEntry(h)
           ELSE IF e.k = "arr" THEN ArrEntry(Append(e.seq, h))
           ELSE ArrEntry(<<e.seq[1], h>>)]

\* What the add does to the dispatches under way: a push reaches every
\* captured array that is still the registry's array; a new array does not.
onAddStack(ev, st, o, t, h) ==
    [k \in 1..Len(st) |->
        IF st[k].obj = o /\ st[k].type = t
        THEN [st[k] EXCEPT
                 !.seq = IF ev[o][t].k = "arr" /\ st[k].live
                         THEN Append(@, h) ELSE @,
                 !.live = @ /\ ev[o][t].k = "arr",
                 !.mutated = TRUE]
        ELSE st[k]]

RECURSIVE Without(_, _, _)
\* Lines 154-157: the handlers whose guid differs from id, in order.
Without(q, g, id) ==
    IF q = <<>> THEN <<>>
    ELSE (IF g[Head(q)] # id THEN <<Head(q)>> ELSE <<>>) \o Without(Tail(q), g, id)

\* Lines 148-168 of Object.off, the handler given: g is the guid map after
\* Object.guid(handler).
offHandler(ev, g, o, t, h) ==
    LET e == entryOf(ev, o, t)
        id == g[h]
    IN IF e.k = "none" THEN ev
       ELSE IF e.k = "arr"
       THEN LET newHandlers == Without(e.seq, g, id)
            IN [ev EXCEPT ![o][t] =
                   IF Len(newHandlers) = 0 THEN NoEntry
                   ELSE IF Len(newHandlers) = 1 THEN FnEntry(newHandlers[1])
                   ELSE ArrEntry(newHandlers)]
       ELSE IF g[e.seq[1]] = id THEN [ev EXCEPT ![o][t] = NoEntry] ELSE ev

\* off replaces or deletes the entry: no captured array is the registry's own
\* any more (an entry that was absent or a bare function had no array).
offStack(ev, st, o, t) ==
    [k \in 1..Len(st) |->
        IF st[k].obj = o /\ st[k].type = t
        THEN [st[k] EXCEPT !.live = @ /\ ev[o][t].k # "arr", !.mutated = TRUE]
        ELSE st[k]]

\* Object.guid(object), lines 91-97.
guid(g, c, h) == IF g[h] = 0 THEN [map |-> [g EXCEPT ![h] = c], ctr |-> c + 1]
                 ELSE [map |-> g, ctr |-> c]

\* Line 193: handlers[i].apply(object, args), args the event and the rest.
Invoke(f, r) ==
    [h |-> f.seq[f.i], this |-> f.obj, etype |-> f.type, esource |-> f.obj,
     args |-> f.args, ret |-> r]

\* Cancels with a loose test (!result).
CancelsFalsy(f, r) == f.k = "arr" /\ r \in {"false", "0", "undefined"}

\* Line 193: the dispatch breaks when the handler returned exactly false
\* (line 196: the return value of a bare handler is not read).
Cancels(f, r) == f.k = "arr" /\ r = "false"

\* LoopBound reading handlers.length on every round.
LoopBoundLive(f) == Len(f.seq)

\* Line 191: the loop runs to the length read when the dispatch started.
LoopBound(f) == f.len

-----------------------------------------------------------------------------
(* The event calls: made by the program, or by the handler that is running *)

\* Object.trigger(object, type, args...) begins: nothing registered, or the
\* first handler is entered.
Trigger(o, t, args) ==
    /\ Touch(o)
    /\ IF entryOf(events, o, t).k = "none"
       THEN /\ evLast' = [NoEvCall EXCEPT !.op = "trigger", !.obj = o, !.type = t,
                                          !.args = args]
            /\ UNCHANGED stack
       ELSE /\ Len(stack) < MaxDepth
            /\ stack' = Append(stack, Frame(o, t, args, entryOf(events, o, t), NoCont))
            /\ evLast' = Entered
    /\ UNCHANGED <<events, guidOf, guidCtr>>

\* On storing the handler before it looks for "newListener" handlers.
OnAddFirst(o, t, h) ==
    LET ev1 == onAdd(events, o, t, h)
    IN /\ Regs < MaxRegs
       /\ Touch(o)
       /\ events' = ev1
       /\ IF ev1[o]["newListener"].k # "none"
          THEN /\ Len(stack) < MaxDepth
               /\ stack' = Append(Called(onAddStack(events, stack, o, t, h)),
                     Frame(o, "newListener", <<t, h>>, ev1[o]["newListener"], NoCont))
               /\ evLast' = Entered
          ELSE /\ stack' = Called(onAddStack(events, stack, o, t, h))
               /\ evLast' = [NoEvCall EXCEPT !.op = "on", !.obj = o, !.type = t,
                                             !.h = h]
       /\ UNCHANGED <<guidOf, guidCtr>>

\* Object.on(object, type, handler), handler a function: with "newListener"
\* handlers present they are dispatched first and the add waits; else the add.
On(o, t, h) ==
    /\ Regs < MaxRegs
    /\ Touch(o)
    /\ IF events[o]["newListener"].k # "none"
       THEN /\ Len(stack) < MaxDepth
            /\ stack' = Append(Called(stack),
                  Frame(o, "newListener", <<t, h>>, events[o]["newListener"],
                        [on |-> TRUE, obj |-> o, type |-> t, h |-> h]))
            /\ evLast' = Entered
            /\ UNCHANGED events
       ELSE /\ events' = onAdd(events, o, t, h)
            /\ stack' = Called(onAddStack(events, stack, o, t, h))
            /\ evLast' = [NoEvCall EXCEPT !.op = "on", !.obj = o, !.type = t,
                                          !.h = h]
    /\ UNCHANGED <<guidOf, guidCtr>>

\* Object.on with a handler that is no function: throws at once.
OnInvalid(o, t, v) ==
    /\ stack = <<>>
    /\ v \in NonCallables
    /\ evLast' = [NoEvCall EXCEPT !.op = "on", !.obj = o, !.type = t, !.h = v,
                                  !.threw = TRUE]
    /\ UNCHANGED <<reg, events, guidOf, guidCtr, stack>>

\* Object.off(object, type, handler)
Off(o, t, h) ==
    LET g == guid(guidOf, guidCtr, h)
    IN /\ Touch(o)
       /\ guidOf' = g.map /\ guidCtr' = g.ctr
       /\ events' = offHandler(events, g.map, o, t, h)
       /\ stack' = Called(IF entryOf(events, o, t).k = "none" THEN stack
                          ELSE offStack(events', stack, o, t))
       /\ evLast' = [NoEvCall EXCEPT !.op = "off", !.obj = o, !.type = t, !.h = h]

\* OffAll emptying the whole registry of the object.
OffAllTypes(o, t) ==
    /\ Touch(o)
    /\ events' = [events EXCEPT ![o] = [u \in AllTypes |-> NoEntry]]
    /\ stack' = Called(offStack(events', stack, o, t))
    /\ evLast' = [NoEvCall EXCEPT !.op = "offAll", !.obj = o, !.type = t,
                                  !.snap = HandlersOf(events, o, t)]
    /\ UNCHANGED <<guidOf, guidCtr>>

\* Object.off(object, type): every handler of the type goes (snap: the
\* handlers it had).
OffAll(o, t) ==
    /\ Touch(o)
    /\ events' = [events EXCEPT ![o][t] = NoEntry]
    /\ stack' = Called(offStack(events', stack, o, t))
    /\ evLast' = [NoEvCall EXCEPT !.op = "offAll", !.obj = o, !.type = t,
                                  !.snap = HandlersOf(events, o, t)]
    /\ UNCHANGED <<guidOf, guidCtr>>

\* The running handler returns r: the dispatch goes on to the next handler, or
\* ends (and the `on` that waited for it adds its handler).
Return(r) ==
    /\ stack # <<>>
    /\ LET n == Len(stack)
           f == stack[n]
           f1 == [f EXCEPT !.calls = Append(@, Invoke(f, r))]
           rest == SubSeq(stack, 1, n - 1)
       IN IF ~Cancels(f, r) /\ f.i < LoopBound(f)
          THEN /\ stack' = [stack EXCEPT ![n] = [f1 EXCEPT !.i = f.i + 1]]
               /\ evLast' = Entered
               /\ UNCHANGED events
          ELSE /\ evLast' = [NoEvCall EXCEPT
                                !.op = "trigger", !.obj = f.obj, !.type = f.type,
                                !.args = f.args, !.snap = f.snap,
                                !.calls = f1.calls, !.mutated = f.mutated]
               /\ IF f.cont.on
                  THEN /\ events' = onAdd(events, f.cont.obj, f.cont.type, f.cont.h)
                       /\ stack' = onAddStack(events, rest, f.cont.obj,
                                              f.cont.type, f.cont.h)
                  ELSE /\ events' = events
                       /\ stack' = rest
    /\ UNCHANGED <<reg, guidOf, guidCtr>>

EvInit ==
    /\ reg = [o \in EvObjs |-> FALSE]
    /\ events = [o \in EvObjs |-> [t \in AllTypes |-> NoEntry]]
    /\ guidOf = [h \in Handlers \cup {ObjectFn} |-> 0]
    /\ guidCtr = 1
    /\ stack = <<>>
    /\ evLast = NoEvCall

\* A call into the emitter leaves the rest of the program alone.
EvFrame == lib = "guid" /\ UNCHANGED <<lib, inhVars, v2Vars, regVars, mixVars>>

\* The program triggers a plain type; it and its handlers register and remove
\* handlers of plain types (a handler: of the object and type it runs for);
\* the running handler returns.
DoTrigger ==
    /\ EvFrame /\ stack = <<>>
    /\ \E o \in EvObjs, t \in PlainTypes, a \in ArgLists : Trigger(o, t, a)
DoOn ==
    EvFrame /\ \E o \in EvObjs, t \in PlainTypes, h \in Handlers :
                  MayCall(o, t) /\ On(o, t, h)
\* on for any type, "newListener" included.
DoOnAny ==
    EvFrame /\ \E o \in EvObjs, t \in Types, h \in Handlers :
                  MayCall(o, t) /\ On(o, t, h)
\* off(o, "newListener") by the program.
DoOffListeners == EvFrame /\ stack = <<>> /\ \E o \in EvObjs : OffAll(o, "newListener")
DoOnInvalid ==
    EvFrame /\ \E o \in EvObjs, t \in PlainTypes, v \in NonCallables : OnInvalid(o, t, v)
DoOff ==
    EvFrame /\ \E o \in EvObjs, t \in PlainTypes, h \in Handlers :
                  MayCall(o, t) /\ Off(o, t, h)
DoOffAll ==
    EvFrame /\ \E o \in EvObjs, t \in PlainTypes : MayCall(o, t) /\ OffAll(o, t)
DoReturn == EvFrame /\ \E r \in Returns : Return(r)
\* The same calls on one object, for a plain type and for a type named like a
\* property of Object.prototype.
NamedTypes == {"x"} \cup InheritedTypes
DoOnNamed ==
    EvFrame /\ \E t \in NamedTypes, h \in Handlers :
                  MayCall("o1", t) /\ On("o1", t, h)
DoOffNamed ==
    EvFrame /\ \E t \in NamedTypes, h \in Handlers :
                  MayCall("o1", t) /\ Off("o1", t, h)
DoOffAllNamed ==
    EvFrame /\ \E t \in NamedTypes : MayCall("o1", t) /\ OffAll("o1", t)
DoTriggerNamed ==
    EvFrame /\ stack = <<>> /\ \E t \in NamedTypes : Trigger("o1", t, <<>>)

-----------------------------------------------------------------------------
(* The second revision, src/monterey.js lines 321-623 *)

Fns2 == {"F", "G"}            \* functions: classes, mixins and handlers alike
HandlerFns2 == Fns2 \cup {"H"} \* H: a function used as a handler only
\* What a handler does when it is invoked: nothing, return false, or call
\* Object.off(object, type, itself).
Behaviours2 == {"none", "false", "offSelf"}
Plain2 == {"p"}               \* a plain object
Objs2 == Plain2 \cup Fns2
Types2 == {"x", "mixedIn", "inherited"}
\* Where the program registers handlers.
Slots2 == {<<"p", "x">>, <<"F", "mixedIn">>, <<"G", "inherited">>}

\* A property that holds an array (_events[type], _mixins), or is absent.
NoArr == [has |-> FALSE, seq |-> <<>>]
Arr(q) == [has |-> TRUE, seq |-> q]

NoSeen == [guid |-> 0, parent |-> "none", ctor |-> "none"]

\* seen: what the handlers invoked by the call find when they read the
\* child's _guid, parent and prototype.constructor.
NoCall2 == [op |-> "none", obj |-> "none", type |-> "none", fn |-> "none",
            threw |-> FALSE, calls |-> <<>>, seen |-> NoSeen,
            before |-> <<>>, does |-> <<>>]

RECURSIVE SumLen2(_, _)
SumLen2(ev, S) ==
    IF S = {} THEN 0
    ELSE LET p == CHOOSE p \in S : TRUE
         IN Len(ev[p[1]].by[p[2]].seq) + SumLen2(ev, S \ {p})

\* Registrations alive in the second revision.
Regs2 == SumLen2(events2, Objs2 \X Types2)

\* Object.events(object), lines 417-425: _events is created on first access.
eventsOf2(ev, o) == [ev EXCEPT ![o].has = TRUE]

\* Object.trigger, lines 484-508, with handlers that change nothing: they are
\* applied to the object with the arguments in order, up to and including
\* handler n, the first to return false (n = 0: none does).
dispatch2(q, n, object, args) ==
    [k \in 1..(IF n = 0 THEN Len(q) ELSE n) |->
        [h |-> q[k], this |-> object, args |-> args,
         ret |-> IF k = n THEN "false" ELSE "undefined"]]

RECURSIVE spliceLoop(_, _, _, _)
\* Lines 471-475 of Object.off: for (i = 0; i < handlers.length; ++i), with
\* handlers.splice(i--, 1) on a match.
spliceLoop(q, g, id, i) ==
    IF i > Len(q) THEN q
    ELSE IF g[q[i]] = id
         THEN spliceLoop(SubSeq(q, 1, i - 1) \o SubSeq(q, i + 1, Len(q)), g, id, i)
         ELSE spliceLoop(q, g, id, i + 1)

RECURSIVE triggerLoop(_, _, _, _, _, _)
\* The loop of Object.trigger, lines 500-505: for (i = 0, len =
\* handlers.length; i < len; ++i) on the array the registry holds, which a
\* handler calling off splices under the loop.  handlers[i] undefined: the
\* call of its apply throws a TypeError out of trigger.
triggerLoop(q, i, len, does, g, calls) ==
    IF i > len THEN [calls |-> calls, threw |-> FALSE, q |-> q]
    ELSE IF i > Len(q) THEN [calls |-> calls, threw |-> TRUE, q |-> q]
    ELSE LET h == q[i]
             q1 == IF does[h] = "offSelf" THEN spliceLoop(q, g, g[h], 1) ELSE q
             cs == Append(calls, h)
         IN IF does[h] = "false" THEN [calls |-> cs, threw |-> FALSE, q |-> q1]
            ELSE triggerLoop(q1, i + 1, len, does, g, cs)

\* Object.trigger(object, type), lines 484-508, the handlers doing what `does`
\* says.
Trigger2(o, t, does) ==
    /\ LET r == IF events2[o].by[t].has
                THEN triggerLoop(events2[o].by[t].seq, 1, Len(events2[o].by[t].seq),
                                 does, fnGuid, <<>>)
                ELSE [calls |-> <<>>, threw |-> FALSE, q |-> <<>>]
       IN /\ events2' = [eventsOf2(events2, o) EXCEPT ![o].by[t].seq = r.q]
          /\ last2' = [NoCall2 EXCEPT !.op = "trigger", !.obj = o, !.type = t,
                                      !.calls = r.calls, !.threw = r.threw,
                                      !.before = events2[o].by[t].seq,
                                      !.does = does]
    /\ UNCHANGED <<fnGuid, guid2, mixinsOf, merged, proto2>>

\* Object.merge(this, fn), line 543, on functions: the enumerable own
\* properties of fn are assigned to this; _guid is one once fn has it.
mergeFn(g, child, parent) ==
    [g EXCEPT ![child] = IF g[parent] # 0 THEN g[parent] ELSE @]

\* Object.on(object, type, handler), lines 430-449, handler a function.
On2(o, t, h) ==
    /\ Regs2 < MaxRegs
    /\ events2' = [eventsOf2(events2, o) EXCEPT ![o].by[t] = Arr(Append(@.seq, h))]
    /\ fnGuid' = [fnGuid EXCEPT ![h] = IF @ = 0 THEN guid2 ELSE @]
    /\ guid2' = IF fnGuid[h] = 0 THEN guid2 + 1 ELSE guid2
    /\ last2' = [NoCall2 EXCEPT !.op = "on", !.obj = o, !.type = t, !.fn = h]
    /\ UNCHANGED <<mixinsOf, merged, proto2>>

\* Object.on with a handler that is no function: throws at once (432-434).
On2Invalid(o, t, v) ==
    /\ v \in NonCallables
    /\ last2' = [NoCall2 EXCEPT !.op = "on", !.obj = o, !.type = t, !.fn = v,
                                !.threw = TRUE]
    /\ UNCHANGED <<events2, fnGuid, guid2, mixinsOf, merged, proto2>>

\* Object.off(object, type, handler), lines 455-477, handler given.
Off2(o, t, h) ==
    /\ events2' = [eventsOf2(events2, o) EXCEPT ![o].by[t] =
                      IF @.has /\ fnGuid[h] # 0
                      THEN Arr(spliceLoop(@.seq, fnGuid, fnGuid[h], 1))
                      ELSE @]
    /\ last2' = [NoCall2 EXCEPT !.op = "off", !.obj = o, !.type = t, !.fn = h]
    /\ UNCHANGED <<fnGuid, guid2, mixinsOf, merged, proto2>>

\* Object.off(object, type), lines 459-462: delete events[type].
OffAll2(o, t) ==
    /\ events2' = [eventsOf2(events2, o) EXCEPT ![o].by[t] = NoArr]
    /\ last2' = [NoCall2 EXCEPT !.op = "offAll", !.obj = o, !.type = t]
    /\ UNCHANGED <<fnGuid, guid2, mixinsOf, merged, proto2>>

\* Object.mixin(object, fn), fn no function: throws at once (392-394).
Mixin2Invalid(o, v) ==
    /\ v \in NonCallables
    /\ last2' = [NoCall2 EXCEPT !.op = "mixin", !.obj = o, !.fn = v,
                                !.threw = TRUE]
    /\ UNCHANGED <<events2, fnGuid, guid2, mixinsOf, merged, proto2>>

\* Object.mixin(object, fn), lines 390-402, fn a function whose body changes
\* nothing: fn is recorded, its prototype's own enumerable m is merged onto
\* the object, and "mixedIn" is triggered on fn.
Mixin2(o, fn, n) ==
    /\ Len(mixinsOf[o].seq) < MaxMixins
    /\ n \in 0..Len(events2[fn].by["mixedIn"].seq)
    /\ mixinsOf' = [mixinsOf EXCEPT ![o] = Arr(Append(@.seq, fn))]
    /\ merged' = [merged EXCEPT ![o] = IF proto2[fn].m THEN fn ELSE @]
    /\ events2' = eventsOf2(events2, fn)
    /\ last2' = [NoCall2 EXCEPT !.op = "mixin", !.obj = o, !.fn = fn,
                                !.calls = dispatch2(events2[fn].by["mixedIn"].seq,
                                                    n, fn, <<o>>)]
    /\ UNCHANGED <<fnGuid, guid2, proto2>>

\* Inherit2 triggering "inherited" in its first statement.
Inherit2EventFirst(child, parent, n) ==
    /\ n \in 0..Len(events2[parent].by["inherited"].seq)
    /\ fnGuid' = mergeFn(fnGuid, child, parent)
    /\ proto2' = [proto2 EXCEPT ![child] =
                     [parent |-> parent, m |-> FALSE, ctor |-> child]]
    /\ events2' = eventsOf2(events2, parent)
    /\ last2' = [NoCall2 EXCEPT !.op = "inherit", !.obj = child, !.fn = parent,
                                !.calls = dispatch2(events2[parent].by["inherited"].seq,
                                                    n, parent, <<child>>),
                                !.seen = [guid |-> fnGuid[child],
                                          parent |-> proto2[child].parent,
                                          ctor |-> proto2[child].ctor]]
    /\ UNCHANGED <<guid2, mixinsOf, merged>>

\* child.inherit(parent), lines 537-551: parent's enumerable own properties
\* are merged onto child, child gets a new prototype (no own enumerable
\* property, its prototype's constructor is parent), and "inherited" is
\* triggered on parent.
Inherit2(child, parent, n) ==
    /\ n \in 0..Len(events2[parent].by["inherited"].seq)
    /\ fnGuid' = mergeFn(fnGuid, child, parent)
    /\ proto2' = [proto2 EXCEPT ![child] =
                     [parent |-> parent, m |-> FALSE, ctor |-> child]]
    /\ events2' = eventsOf2(events2, parent)
    /\ last2' = [NoCall2 EXCEPT !.op = "inherit", !.obj = child, !.fn = parent,
                                !.calls = dispatch2(events2[parent].by["inherited"].seq,
                                                    n, parent, <<child>>),
                                !.seen = [guid |-> fnGuid'[child],
                                          parent |-> proto2'[child].parent,
                                          ctor |-> proto2'[child].ctor]]
    /\ UNCHANGED <<guid2, mixinsOf, merged>>

Init2 ==
    /\ events2 = [o \in Objs2 |-> [has |-> FALSE, by |-> [t \in Types2 |-> NoArr]]]
    /\ fnGuid = [f \in HandlerFns2 |-> 0]
    /\ guid2 = 1
    /\ mixinsOf = [o \in Plain2 |-> NoArr]
    /\ merged = [o \in Plain2 |-> NoFn]
    /\ proto2 = [f \in Fns2 |-> [parent |-> "Object", m |-> TRUE, ctor |-> f]]
    /\ last2 = NoCall2

\* A call into the second revision leaves the rest of the program alone.
Frame2 == lib = "splice" /\ UNCHANGED <<lib, inhVars, evVars, regVars, mixVars>>

DoOn2 == Frame2 /\ \E s \in Slots2, h \in Fns2 : On2(s[1], s[2], h)
\* Object.on(p, "x", handler), handler one of three functions
DoOnHandler == Frame2 /\ \E h \in HandlerFns2 : On2("p", "x", h)
DoTrigger2 ==
    Frame2 /\ \E does \in [HandlerFns2 -> Behaviours2] : Trigger2("p", "x", does)
DoOn2Invalid ==
    Frame2 /\ \E s \in Slots2, v \in NonCallables : On2Invalid(s[1], s[2], v)
DoOff2 == Frame2 /\ \E s \in Slots2, h \in Fns2 : Off2(s[1], s[2], h)
DoOffAll2 == Frame2 /\ \E s \in Slots2 : OffAll2(s[1], s[2])
DoMixin2 ==
    Frame2 /\ \E o \in Plain2, fn \in Fns2, n \in 0..MaxRegs : Mixin2(o, fn, n)
DoMixin2Invalid ==
    Frame2 /\ \E o \in Plain2, v \in NonCallables : Mixin2Invalid(o, v)
DoInherit2 ==
    Frame2 /\ \E c \in Fns2, p \in Fns2, n \in 0..MaxRegs : Inherit2(c, p, n)

-----------------------------------------------------------------------------
(* Objects of the later revisions: extend with initialize, new, Object.mixin *)
(* and Object.is (src/monterey.js, lines 339-411 and 561-575, with lib =     *)
(* "splice"; src/unnamed/part_003, lines 11-104 and 244-257, with lib =      *)
(* "props", where extend defines the properties with addProperties)          *)

Pool3 == <<"X1", "X2">>       \* the functions extend returns
Made3 == {Pool3[i] : i \in 1..Len(Pool3)}
AllFns3 == Fns2 \cup Made3
Members3 == {"m", "initialize"}
MaxHeap3 == 6                 \* objects on this heap

ObjectProto3 == 1             \* Object.prototype
PlainObj3 == 4                \* an object literal: {}

\* An own property holding a function: `at` is the object the function was
\* created for (its identity).
NoMember == [has |-> FALSE, at |-> 0, enum |-> FALSE]
NewObj3(p, k) ==
    [proto |-> p, kind |-> k, own |-> [n \in Members3 |-> NoMember],
     mixins |-> NoArr]

\* The functions that exist.
Live3 == Fns2 \cup made3

RECURSIVE Chain3(_, _)
Chain3(h, o) == IF o = 0 THEN <<>> ELSE <<o>> \o Chain3(h, h[o].proto)

\* object[name]: the function found first along the prototype chain (its
\* identity), or 0 for undefined.
Get3(h, o, name) ==
    LET ch == Chain3(h, o)
        hits == {i \in 1..Len(ch) : h[ch[i]].own[name].has}
    IN IF hits = {} THEN 0
       ELSE h[ch[CHOOSE i \in hits : \A j \in hits : i <= j]].own[name].at

\* object instanceof fn
instanceOf3(h, pf, o, fn) ==
    \E k \in 1..Len(Chain3(h, h[o].proto)) : Chain3(h, h[o].proto)[k] = pf[fn]

\* Object.mixins(object): the record is created on first access.
ObjectMixins(h, o) == [h EXCEPT ![o].mixins.has = TRUE]

\* Object.mixesIn(object, fn): indexOf(fn) !== -1
mixesIn(h, o, fn) == \E k \in 1..Len(h[o].mixins.seq) : h[o].mixins.seq[k] = fn

\* ObjectIs without the mixin record.
ObjectIsInstance(h, pf, o, fn) == instanceOf3(h, pf, o, fn)

\* Object.is(object, fn)
ObjectIs(h, pf, o, fn) == instanceOf3(h, pf, o, fn) \/ mixesIn(h, o, fn)

\* Object.merge(object, extension): the enumerable own properties of the
\* extension are assigned to the object.
ObjectMerge(h, o, src) ==
    [h EXCEPT ![o].own =
        [n \in Members3 |->
            IF h[src].own[n].has /\ h[src].own[n].enum
            THEN [has |-> TRUE, at |-> h[src].own[n].at,
                  enum |-> IF h[o].own[n].has THEN h[o].own[n].enum ELSE TRUE]
            ELSE h[o].own[n]]]

\* The body of fn applied to `this` with args: a function made by extend
\* calls this.initialize with the arguments if that is a function; a declared
\* function has a body that changes nothing.
Body3(h, made, this, fn, args) ==
    IF fn \in made /\ Get3(h, this, "initialize") # 0
    THEN <<[fn |-> Get3(h, this, "initialize"), this |-> this, args |-> args]>>
    ELSE <<>>

\* Body3 looking for initialize on the prototype of fn itself only.
Body3Own(h, made, this, fn, args) ==
    IF fn \in made /\ h[h[this].proto].own["initialize"].has
    THEN <<[fn |-> h[h[this].proto].own["initialize"].at, this |-> this,
            args |-> args]>>
    ELSE <<>>

NoApply == [this |-> 0, args |-> <<>>, mixins |-> <<>>, m |-> 0]
NoCall3 == [op |-> "none", obj |-> 0, fn |-> "none", cls |-> "none",
            args |-> <<>>, result |-> FALSE, inits |-> <<>>,
            applied |-> NoApply, calls |-> <<>>, handlerSaw |-> FALSE]

\* The "mixedIn" handlers registered on fn.
mixedInHandlers(fn) ==
    IF fn \in Fns2 THEN events2[fn].by["mixedIn"].seq ELSE <<>>

\* What Object.trigger(fn, ...) leaves of the registries: Object.events(fn)
\* creates the one of fn.
triggered(ev, fn) == IF fn \in Fns2 THEN eventsOf2(ev, fn) ELSE ev

\* parent.extend(prototypeProps): a new function whose prototype is created
\* from parent.prototype and gets the properties given, m and initialize or
\* not: by assignment (Object.merge), or non-enumerable (addProperties).
ExtendInit(parent, hasM, hasInit) ==
    /\ parent \in Live3
    /\ Cardinality(made3) < Len(Pool3)
    /\ Len(heap3) < MaxHeap3
    /\ LET child == Pool3[Cardinality(made3) + 1]
           id == Len(heap3) + 1
           prop == [has |-> TRUE, at |-> id, enum |-> lib = "splice"]
       IN /\ heap3' = Append(heap3,
                [NewObj3(protoOf3[parent], "proto") EXCEPT
                    !.own = [n \in Members3 |->
                               IF (n = "m" /\ hasM) \/ (n = "initialize" /\ hasInit)
                               THEN prop ELSE NoMember]])
          /\ protoOf3' = [protoOf3 EXCEPT ![child] = id]
          /\ made3' = made3 \cup {child}
          /\ events2' = triggered(events2, parent)
          /\ last3' = [NoCall3 EXCEPT !.op = "extend", !.fn = parent, !.cls = child]
    /\ UNCHANGED <<fnGuid, guid2, mixinsOf, merged, proto2, last2>>

\* fn.prototype.m = function () {}
AssignMember(fn, name) ==
    /\ fn \in Live3 /\ name \in Members3
    /\ ~heap3[protoOf3[fn]].own[name].has
    /\ heap3' = [heap3 EXCEPT ![protoOf3[fn]].own[name] =
                    [has |-> TRUE, at |-> protoOf3[fn], enum |-> TRUE]]
    /\ last3' = [NoCall3 EXCEPT !.op = "assign", !.fn = fn]
    /\ UNCHANGED <<protoOf3, made3, v2Vars>>

\* new fn(args) with the body looking for initialize on fn.prototype only.
New3Own(fn, args) ==
    /\ fn \in Live3
    /\ Len(heap3) < MaxHeap3
    /\ LET id == Len(heap3) + 1
           h1 == Append(heap3, NewObj3(protoOf3[fn], "inst"))
       IN /\ heap3' = h1
          /\ last3' = [NoCall3 EXCEPT !.op = "new", !.fn = fn, !.obj = id,
                                      !.args = args,
                                      !.inits = Body3Own(h1, made3, id, fn, args)]
    /\ UNCHANGED <<protoOf3, made3, v2Vars>>

\* new fn(args)
New3(fn, args) ==
    /\ fn \in Live3
    /\ Len(heap3) < MaxHeap3
    /\ LET id == Len(heap3) + 1
           h1 == Append(heap3, NewObj3(protoOf3[fn], "inst"))
       IN /\ heap3' = h1
          /\ last3' = [NoCall3 EXCEPT !.op = "new", !.fn = fn, !.obj = id,
                                      !.args = args,
                                      !.inits = Body3(h1, made3, id, fn, args)]
    /\ UNCHANGED <<protoOf3, made3, v2Vars>>

\* The statements of Object.mixin with the application of fn moved first.
mixinBodyApplyFirst == <<"apply", "push", "merge", "trigger">>

\* The statements of Object.mixin after its validation, lines 396-401.
mixinBody == <<"push", "merge", "apply", "trigger">>

RECURSIVE runMixin(_, _, _, _, _, _, _)
\* The statements run in turn on the running state st: the heap, what the
\* body of fn found when it was applied, the initialize calls it made, the
\* "mixedIn" handlers called (handler n returns false) and whether they found
\* fn applied already.
runMixin(stmts, st, made, o, fn, args, n) ==
    IF stmts = <<>> THEN st
    ELSE LET s1 == Head(stmts)
             st1 ==
               IF s1 = "push"
               THEN [st EXCEPT !.h = [ObjectMixins(st.h, o) EXCEPT
                                         ![o].mixins.seq = Append(@, fn)]]
               ELSE IF s1 = "merge"
               THEN [st EXCEPT !.h = ObjectMerge(st.h, o, protoOf3[fn])]
               ELSE IF s1 = "apply"
               THEN [st EXCEPT
                       !.applied = [this |-> o, args |-> args,
                                    mixins |-> st.h[o].mixins.seq,
                                    m |-> Get3(st.h, o, "m")],
                       !.inits = Body3(st.h, made, o, fn, args)]
               ELSE [st EXCEPT
                       !.calls = dispatch2(mixedInHandlers(fn), n, fn, <<o>>),
                       !.handlerSaw = st.applied.this # 0]
         IN runMixin(Tail(stmts), st1, made, o, fn, args, n)

\* Object.mixin(object, fn, args...), fn a function.
ObjectMixin(o, fn, args, n) ==
    /\ fn \in Live3
    /\ Len(heap3[o].mixins.seq) < MaxMixins
    /\ n \in 0..Len(mixedInHandlers(fn))
    /\ LET st == runMixin(mixinBody,
                          [h |-> heap3, applied |-> NoApply, inits |-> <<>>,
                           calls |-> <<>>, handlerSaw |-> FALSE],
                          made3, o, fn, args, n)
       IN /\ heap3' = st.h
          /\ last3' = [NoCall3 EXCEPT
                !.op = "mixin", !.obj = o, !.fn = fn, !.args = args,
                !.applied = st.applied, !.inits = st.inits,
                !.calls = st.calls, !.handlerSaw = st.handlerSaw]
    /\ events2' = triggered(events2, fn)
    /\ UNCHANGED <<protoOf3, made3, fnGuid, guid2, mixinsOf, merged, proto2, last2>>

\* Object.is(object, fn): mixesIn is reached, and creates the record of the
\* object, when instanceof is false.
IsCall(o, fn) ==
    /\ fn \in Live3
    /\ heap3' = IF instanceOf3(heap3, protoOf3, o, fn) THEN heap3
                ELSE ObjectMixins(heap3, o)
    /\ last3' = [NoCall3 EXCEPT !.op = "is", !.obj = o, !.fn = fn,
                                !.result = ObjectIs(heap3, protoOf3, o, fn)]
    /\ UNCHANGED <<protoOf3, made3, v2Vars>>

MixInit ==
    /\ heap3 = <<NewObj3(0, "proto"), NewObj3(ObjectProto3, "proto"),
                 NewObj3(ObjectProto3, "proto"), NewObj3(ObjectProto3, "plain")>>
    /\ protoOf3 = [f \in AllFns3 |-> IF f = "F" THEN 2 ELSE IF f = "G" THEN 3 ELSE 0]
    /\ made3 = {}
    /\ last3 = NoCall3

\* A call on these objects leaves the rest of the program alone.
MixFrame ==
    lib \in {"splice", "props"} /\ UNCHANGED <<lib, inhVars, evVars, regVars>>

\* The objects a program passes: the object literal and the instances.
Targets3 == {o \in 1..Len(heap3) : heap3[o].kind \in {"plain", "inst"}}

DoExtendInit ==
    MixFrame /\ \E p \in AllFns3, hm \in BOOLEAN, hi \in BOOLEAN : ExtendInit(p, hm, hi)
DoAssignMember == MixFrame /\ \E f \in Fns2 : AssignMember(f, "m")
DoAssignInit == MixFrame /\ \E f \in Fns2 : AssignMember(f, "initialize")
DoNew3 == MixFrame /\ \E f \in AllFns3, a \in ArgLists : New3(f, a)
\* The program creates one instance, of a declared function: new F()
DoNewDeclared ==
    MixFrame /\ Targets3 = {PlainObj3} /\ \E f \in Fns2 : New3(f, <<>>)
DoObjectMixin ==
    MixFrame /\ \E o \in Targets3, fn \in AllFns3, a \in ArgLists, n \in 0..MaxRegs :
                   ObjectMixin(o, fn, a, n)
DoIsCall == MixFrame /\ \E o \in Targets3, fn \in AllFns3 : IsCall(o, fn)
\* Object.on(fn, "mixedIn", handler)
DoOnMixedIn == Frame2 /\ On2("F", "mixedIn", "G")

-----------------------------------------------------------------------------
(* Object.events and the identity of the registry (src/monterey.js, lines    *)
(* 103-109 and 417-425): objects with a prototype, classes that inherit      *)

\* derived is an object whose prototype is base; K and P are functions.
RObjs == {"base", "derived", "P", "K"}
RFns == {"P", "K"}
NoObj == "none"
protoOfR(o) == IF o = "derived" THEN "base" ELSE NoObj

NoRegistry == 0               \* the registry property is absent

NoRegCall == [op |-> "none", obj |-> NoObj, arg |-> NoObj, id |-> NoRegistry,
              calls |-> <<>>]

\* object.hasOwnProperty('__monterey_events__') (line 104; '_events', line 419)
hasOwnEvents(own, o) == own[o] # NoRegistry

RECURSIVE readEvents(_, _)
\* object.__monterey_events__ (line 108; object._events, line 423): the own
\* property, or else the one found up the prototype chain.
readEvents(own, o) ==
    IF own[o] # NoRegistry THEN own[o]
    ELSE IF protoOfR(o) = NoObj THEN NoRegistry
    ELSE readEvents(own, protoOfR(o))

\* eventsCall testing the property by reading it (if (!object.__monterey_events__)).
eventsCallInherited(own, regs, o) ==
    LET made == readEvents(own, o) = NoRegistry
        own1 == IF made THEN [own EXCEPT ![o] = Len(regs) + 1] ELSE own
    IN [own |-> own1, regs |-> IF made THEN Append(regs, <<>>) ELSE regs,
        id |-> readEvents(own1, o)]

\* Object.events(object): a new empty registry becomes an own property of the
\* object unless it has one; the property is then read.
eventsCall(own, regs, o) ==
    LET made == ~hasOwnEvents(own, o)
        own1 == IF made THEN [own EXCEPT ![o] = Len(regs) + 1] ELSE own
    IN [own |-> own1, regs |-> IF made THEN Append(regs, <<>>) ELSE regs,
        id |-> readEvents(own1, o)]

\* The registry property is defined enumerable: false (line 19 through
\* addProperty; defineProperty's default at line 420).
RegistryEnumerable == FALSE

\* The copy of the parent's enumerable properties onto the child that inherit
\* makes (addProperties, line 223; Object.merge, line 543).
copyEnumerable(own, child, parent) ==
    IF RegistryEnumerable /\ hasOwnEvents(own, parent)
    THEN [own EXCEPT ![child] = own[parent]]
    ELSE own

\* The registrations made so far.
Logged ==
    Len(onLog["base"]) + Len(onLog["derived"]) + Len(onLog["P"]) + Len(onLog["K"])

\* The program calls Object.events(o).
EventsR(o) ==
    LET e == eventsCall(ownEvents, registries, o)
    IN /\ ownEvents' = e.own /\ registries' = e.regs
       /\ lastReg' = [NoRegCall EXCEPT !.op = "events", !.obj = o, !.id = e.id]
       /\ UNCHANGED onLog

\* Object.on(o, type, h) for one type: h is pushed onto the handlers the
\* registry of o holds (lines 119-133; 436-447).
OnR(o, h) ==
    LET e == eventsCall(ownEvents, registries, o)
    IN /\ Logged < MaxRegs
       /\ ownEvents' = e.own
       /\ registries' = [e.regs EXCEPT ![e.id] = Append(@, h)]
       /\ onLog' = [onLog EXCEPT ![o] = Append(@, h)]
       /\ lastReg' = [NoRegCall EXCEPT !.op = "on", !.obj = o, !.arg = h,
                                       !.id = e.id]

\* Object.trigger(o, type): the handlers the registry of o holds are invoked
\* (lines 177-197; 486-506), none of them returning false.
TriggerR(o) ==
    LET e == eventsCall(ownEvents, registries, o)
    IN /\ ownEvents' = e.own /\ registries' = e.regs
       /\ lastReg' = [NoRegCall EXCEPT !.op = "trigger", !.obj = o, !.id = e.id,
                                       !.calls = e.regs[e.id]]
       /\ UNCHANGED onLog

\* child.inherit(parent), as far as the registries go.
InheritR(child, parent) ==
    /\ ownEvents' = copyEnumerable(ownEvents, child, parent)
    /\ lastReg' = [NoRegCall EXCEPT !.op = "inherit", !.obj = child, !.arg = parent]
    /\ UNCHANGED <<registries, onLog>>

RegInit ==
    /\ ownEvents = [o \in RObjs |-> NoRegistry]
    /\ registries = <<>>
    /\ onLog = [o \in RObjs |-> <<>>]
    /\ lastReg = NoRegCall

\* Either revision of the emitter is loaded; the rest of the program is left alone.
RegFrame ==
    lib \in {"guid", "splice"} /\ UNCHANGED <<lib, inhVars, evVars, v2Vars, mixVars>>

DoEventsR == RegFrame /\ \E o \in RObjs : EventsR(o)
DoOnR == RegFrame /\ \E o \in RObjs, h \in Handlers : OnR(o, h)
DoTriggerR == RegFrame /\ \E o \in RObjs : TriggerR(o)
DoInheritR == RegFrame /\ \E c \in RFns, p \in RFns : InheritR(c, p)

-----------------------------------------------------------------------------
(* Specifications *)

\* The program starts with one revision loaded and nothing done yet.
Fresh == InhInit /\ EvInit /\ Init2 /\ RegInit /\ MixInit
InitInh == lib = "index" /\ Fresh
InitEv == lib = "guid" /\ Fresh
InitOff == lib \in {"guid", "splice"} /\ Fresh
InitErr == lib \in {"index", "guid", "splice"} /\ Fresh
InitSplice == lib = "splice" /\ Fresh

\* inherit, extend and new: the prototype chains.
InhNext == DoInherit \/ DoExtendPlain \/ DoNew
SpecInh == InitInh /\ [][InhNext]_vars

\* inherit and static properties.
StatNext == DoInherit \/ DoSetStatic
SpecStat == InitInh /\ [][StatNext]_vars

\* inherit on classes with static properties whose values are functions.
FrameNext == DoInherit \/ DoSetStaticFn
SpecFrame == InitInh /\ [][FrameNext]_vars

\* inherit on classes that have methods and instances already.
FreshNext == DoInherit \/ DoDefineMethod \/ DoNew
SpecFresh == InitInh /\ [][FreshNext]_vars

\* methods and the super getter.
SupNext == DoInherit \/ DoDefineMethod \/ DoNew \/ DoReadSuper
SpecSup == InitInh /\ [][SupNext]_vars

\* classes built by extend alone, and their construction.
ExtNext == DoExtend \/ DoNew
SpecExt == InitInh /\ [][ExtNext]_vars

\* the emitter: on, off and trigger, handlers calling back into it.
EvNext == DoTrigger \/ DoOn \/ DoOff \/ DoOffAll \/ DoReturn
SpecEv == InitEv /\ [][EvNext]_vars

\* the emitter, for types of any name.
RefineNext == DoOnNamed \/ DoOffNamed \/ DoOffAllNamed \/ DoTriggerNamed \/ DoReturn
SpecRefine == InitEv /\ [][RefineNext]_vars

\* registering and removing handlers, in either revision of the emitter.
OffNext ==
    \/ DoOn \/ DoOff \/ DoOffAll
    \/ DoOn2 \/ DoOff2 \/ DoOffAll2 \/ DoInherit2
SpecOff == InitOff /\ [][OffNext]_vars

\* calls with arguments that are no functions, among calls that are valid.
ErrNext ==
    \/ DoInherit \/ DoSetStaticBase \/ DoInheritInvalid
    \/ DoOn \/ DoOff \/ DoOnInvalid
    \/ DoOn2 \/ DoOn2Invalid \/ DoMixin2 \/ DoMixin2Invalid
SpecErr == InitErr /\ [][ErrNext]_vars

\* methods with and without a name, on some levels of a chain only.
MissNext == DoInheritDeclared \/ DoDefineAny \/ DoNew \/ DoReadSuper
SpecMiss == InitInh /\ [][MissNext]_vars

\* extend with and without a constructor, existing functions among them.
NewNext == DoExtendPlain \/ DoExtendWith
SpecNew == InitInh /\ [][NewNext]_vars

InitMix == lib = "splice" /\ Fresh
InitProps == lib = "props" /\ Fresh

\* Object.mixin of declared and extended functions, with "mixedIn" handlers.
MixinNext == DoAssignMember \/ DoNewDeclared \/ DoObjectMixin \/ DoOnMixedIn
SpecMixin == InitMix /\ [][MixinNext]_vars

\* Object.mixin of functions whose prototype got its method from extend or by
\* assignment, in the revision whose extend uses addProperties.
PropsNext == DoExtendInit \/ DoAssignMember \/ DoObjectMixin
SpecProps == InitProps /\ [][PropsNext]_vars

\* Object.is on instances of declared and extended functions and on objects
\* that mixed functions in.
IsNext == DoExtendInit \/ DoNew3 \/ DoObjectMixin \/ DoIsCall
SpecIs == InitMix /\ [][IsNext]_vars

\* classes made by extend, with and without initialize, and their instances,
\* in either revision.
InitExtend == lib \in {"splice", "props"} /\ Fresh
InitializeNext == DoExtendInit \/ DoAssignInit \/ DoNew3
SpecInitialize == InitExtend /\ [][InitializeNext]_vars

\* the second revision: dispatch to handlers that remove themselves.
Trigger2Next == DoOnHandler \/ DoTrigger2
SpecTrigger2 == InitSplice /\ [][Trigger2Next]_vars

\* inherit, extend and the ancestors getter.
AncNext == DoInherit \/ DoExtendPlain \/ DoAncestors
SpecAnc == InitInh /\ [][AncNext]_vars

\* the second revision: handlers of "inherited" and classes that inherit.
Inherited2Next == DoOn2 \/ DoOffAll2 \/ DoInherit2
SpecInherited2 == InitSplice /\ [][Inherited2Next]_vars

\* on with "newListener" handlers, which may register handlers themselves.
NLNext == DoOnAny \/ DoOffListeners \/ DoReturn
SpecNL == InitEv /\ [][NLNext]_vars

\* Object.events, on and trigger on objects with prototypes and on classes.
RegNext == DoEventsR \/ DoOnR \/ DoTriggerR \/ DoInheritR
SpecReg == InitOff /\ [][RegNext]_vars

-----------------------------------------------------------------------------
(* Claims on inheritance *)

InheritDone == last.op = "inherit" /\ ~last.threw

\* What holds between child and parent right after child.inherit(parent).
LinkedAfterInherit(os, fp, l) ==
    /\ parentGetter(os, fp, l.recv) = l.arg
    /\ isParentOf(os, fp, l.arg, l.recv)
    /\ isChildOf(os, fp, l.recv, l.arg)

C2_ConstructorKept ==
    \A F \in Live : Lookup(objs, fnProto[F], "constructor").cls = F

\* B.inherit(A) has just run for the second time.
C2_Witness ==
    /\ InheritDone
    /\ \E o1, o2 \in 1..Len(objs) :
          /\ o1 # o2
          /\ objs[o1].ctor = last.recv /\ objs[o2].ctor = last.recv
          /\ objs[o1].super = fnProto[last.arg]
          /\ objs[o2].super = fnProto[last.arg]

\* C3: in a chain C inherits B inherits A whose three prototypes each define m,
\* on an instance of C, this.super read by B's m is A.prototype.m and read by
\* C's m is B.prototype.m.
C3_SuperNextLevel ==
    \A A, B, C \in Live :
        ( /\ last.op = "super"
          /\ Cardinality({A, B, C}) = 3
          /\ isParentOf(objs, fnProto, A, B) /\ isParentOf(objs, fnProto, B, C)
          /\ \A F \in {A, B, C} : objs[fnProto[F]].m # NoMethod
          /\ objs[last.inst].proto = fnProto[C] )
        => /\ last.caller = objs[fnProto[B]].m => last.result = objs[fnProto[A]].m
           /\ last.caller = objs[fnProto[C]].m => last.result = objs[fnProto[B]].m

RECURSIVE RootOf(_, _)
\* The root parent of a class built by extend: the first class up the extend
\* calls that extend did not build.
RootOf(cp, F) == IF cp[F] = NoFn THEN F ELSE RootOf(cp, cp[F])

Count(seq, x) == Cardinality({k \in 1..Len(seq) : seq[k] = x})

\* C4: constructing an instance of a class built by extend (from a root class or
\* from another class built by extend) ends normally and runs the root
\* parent's body exactly once.
C4_RootRunsOnce ==
    (last.op = "new" /\ last.recv \in born)
    => /\ last.outcome = "ok"
       /\ Count(last.trace, RootOf(capParent, last.recv)) = 1

\* C9: statics are transitive through inherit: A has an own enumerable s when
\* B.inherit(A) is called, so B.s === A.s; then C.inherit(B) makes C.s === A.s.
C9_StaticsTransitive ==
    [][ /\ (InheritDone /\ "s" \in last.enumS /\ last.recv # last.arg)'
            => GetStatic(statics', last'.recv, "s") = GetStatic(statics', last'.arg, "s")
        /\ ( /\ InheritDone /\ "s" \in last.enumS
             /\ InheritDone' /\ last'.arg = last.recv
             /\ Cardinality({last.arg, last.recv, last'.recv}) = 3 )
            => GetStatic(statics', last'.recv, "s") = GetStatic(statics', last.arg, "s")
      ]_vars

-----------------------------------------------------------------------------
(* Claims on the emitter *)

TriggerDone == evLast.op = "trigger"

\* The handlers a completed trigger call invoked, in the order of the calls.
Invoked(c) == [k \in 1..Len(c.calls) |-> c.calls[k].h]

\* Every invocation had this === the object and (event, a1..an) as arguments,
\* event.type the type triggered and event.source the object.
ReceivedEvent(c) ==
    \A k \in 1..Len(c.calls) :
        /\ c.calls[k].this = c.obj /\ c.calls[k].esource = c.obj
        /\ c.calls[k].etype = c.type /\ c.calls[k].args = c.args

\* The invocations follow the handlers registered when the dispatch started,
\* one each and in their order, as far as the dispatch went.
FollowsSnapshot(c) ==
    /\ Len(c.calls) <= Len(c.snap)
    /\ Invoked(c) = SubSeq(c.snap, 1, Len(c.calls))

\* The dispatch stopped short of a registered handler only at a false return.
StoppedOnlyByFalse(c) ==
    /\ c.snap # <<>> => c.calls # <<>>
    /\ Len(c.calls) < Len(c.snap) => c.calls[Len(c.calls)].ret = "false"

\* C5 as stated, with no condition on what the handlers return: a trigger call
\* invokes every handler registered for the object and type, each exactly once
\* and in registration order, each with this === O and (event, a1..an).
C5_EachOnce == TriggerDone => (Invoked(evLast) = evLast.snap /\ ReceivedEvent(evLast))

\* C5, amended: on(O, x, h) puts h after the handlers already registered for x
\* on O, and trigger(O, x, a1..an) invokes the handlers registered for x on O
\* (and no others) in that order, each once, with this === O and arguments
\* (event, a1..an), event.type === x, event.source === O, all of them unless
\* one returns exactly false, which ends the dispatch.
C5_InOrderUntilFalse ==
    [][ /\ (evLast'.op = "on" /\ ~evLast'.threw)
            => HandlersOf(events', evLast'.obj, evLast'.type)
                 = Append(HandlersOf(events, evLast'.obj, evLast'.type), evLast'.h)
        /\ TriggerDone'
            => /\ FollowsSnapshot(evLast') /\ ReceivedEvent(evLast')
               /\ StoppedOnlyByFalse(evLast') ]_vars

\* trigger(O, x, a1) has called h1 and then h2, the two handlers of x on O,
\* while another handler is registered elsewhere.
C5_Witness ==
    /\ TriggerDone /\ evLast.args # <<>>
    /\ Len(evLast.snap) = 2 /\ evLast.snap[1] # evLast.snap[2]
    /\ Invoked(evLast) = evLast.snap
    /\ \E o \in EvObjs, t \in PlainTypes :
          <<o, t>> # <<evLast.obj, evLast.type>> /\ events[o][t].k # "none"

\* The last trigger call was cut short by a handler.
Cancelled(c) == c.op = "trigger" /\ Len(c.calls) < Len(c.snap)

\* C6: in one trigger call no handler is invoked after one that returned
\* exactly false; a return value other than false (undefined, 0) lets the
\* dispatch go on; and the trigger call after a cancelled one starts from the
\* first handler registered.
C6_ExactFalseCancels ==
    [][ /\ TriggerDone'
            => /\ \A k \in 1..(Len(evLast'.calls) - 1) :
                      evLast'.calls[k].ret # "false"
               /\ StoppedOnlyByFalse(evLast')
        /\ (Cancelled(evLast) /\ stack = <<>> /\ stack' # <<>>)
            => /\ stack'[1].i = 1
               /\ stack'[1].seq = HandlersOf(events, stack'[1].obj, stack'[1].type)
               /\ stack'[1].len = Len(stack'[1].seq) ]_vars

\* Of three handlers the first returned 0, the second false, and the third was
\* not invoked.
C6_Witness ==
    /\ TriggerDone /\ Len(evLast.snap) = 3 /\ Len(evLast.calls) = 2
    /\ evLast.calls[1].ret = "0" /\ evLast.calls[2].ret = "false"

RECURSIVE Others(_, _)
\* The registrations in q that are not h, in their order.
Others(q, h) ==
    IF q = <<>> THEN <<>>
    ELSE (IF Head(q) # h THEN <<Head(q)>> ELSE <<>>) \o Others(Tail(q), h)

\* off(O, x, h) in the guid-based emitter has removed h and nothing else.
OffExactGuid ==
    (lib = "guid" /\ evLast'.op = "off")
    => /\ HandlersOf(events', evLast'.obj, evLast'.type)
            = Others(HandlersOf(events, evLast'.obj, evLast'.type), evLast'.h)
       /\ \A o \in EvObjs, t \in Types :
             <<o, t>> # <<evLast'.obj, evLast'.type>> => events'[o][t] = events[o][t]

\* off(O, x, h) in the splicing emitter has removed h and nothing else.
OffExactSplice ==
    (lib = "splice" /\ last2'.op = "off")
    => /\ events2'[last2'.obj].by[last2'.type].seq
            = Others(events2[last2'.obj].by[last2'.type].seq, last2'.fn)
       /\ \A o \in Objs2, t \in Types2 :
             <<o, t>> # <<last2'.obj, last2'.type>>
             => events2'[o].by[t] = events2[o].by[t]

\* C7: in both emitters off(O, x, h) leaves for x on O exactly the previous
\* registrations that are not h, in their previous order (all of them when h
\* was not registered), and leaves every other type and object alone.
C7_OffRemovesExactly == [][OffExactGuid /\ OffExactSplice]_vars

\* C8: a dispatch during which a handler called on or off for the object and
\* type being dispatched has invoked exactly the handlers registered when it
\* started, in registration order, up to a false return, and none that was
\* added meanwhile.
C8_SnapshotDispatched ==
    (TriggerDone /\ evLast.mutated)
    => FollowsSnapshot(evLast) /\ StoppedOnlyByFalse(evLast)

\* Two handlers were registered when the dispatch started, a third was added
\* by a handler during it, and the dispatch invoked the two.
C8_Witness ==
    /\ TriggerDone /\ evLast.mutated
    /\ Len(evLast.snap) = 2 /\ Len(evLast.calls) = 2
    /\ Len(HandlersOf(events, evLast.obj, evLast.type)) = 3

-----------------------------------------------------------------------------
(* Claims on validation *)

\* C10: a call that throws for an argument that is no function has changed
\* nothing: inherit leaves the heap, the child's prototype and its static
\* properties alone, on leaves the event registry alone, and mixin leaves the
\* mixin record, the object's properties and the event registry alone.
C10_ThrowChangesNothing ==
    [][ /\ (lib = "index" /\ last'.threw)
            => /\ objs' = objs /\ fnProto' = fnProto
               /\ statics' = statics /\ stamp' = stamp
        /\ (lib = "guid" /\ evLast'.threw)
            => reg' = reg /\ events' = events /\ guidOf' = guidOf
        /\ (lib = "splice" /\ last2'.threw)
            => /\ mixinsOf' = mixinsOf /\ merged' = merged
               /\ events2' = events2 /\ fnGuid' = fnGuid ]_vars

\* B.inherit(undefined) has thrown, B a class that inherits from a class and
\* has a static property.
C10_Witness ==
    /\ last.op = "inherit" /\ last.threw
    /\ parentGetter(objs, fnProto, last.recv) \in Classes
    /\ statics[last.recv]["s"].has

-----------------------------------------------------------------------------
(* Claims on the registries and on dispatch *)

\* The handlers registered on o by the calls of on made so far, in order.
RegisteredOn(log, o) == log[o]

\* C11: Object.events(o) returns the registry o holds as its own, the same on
\* every call; no two objects hold the same registry (an object and its
\* prototype, a child class and its parent after inherit included); and
\* trigger on o invokes exactly the handlers that were registered on o.
C11_RegistryPerObject ==
    [][ /\ \A o \in RObjs :
              hasOwnEvents(ownEvents, o) => ownEvents'[o] = ownEvents[o]
        /\ \A o1, o2 \in RObjs :
              (o1 # o2 /\ hasOwnEvents(ownEvents', o1)) => ownEvents'[o1] # ownEvents'[o2]
        /\ lastReg'.op \in {"events", "on", "trigger"}
              => lastReg'.id = ownEvents'[lastReg'.obj] /\ lastReg'.id # NoRegistry
        /\ lastReg'.op = "trigger"
              => lastReg'.calls = RegisteredOn(onLog', lastReg'.obj) ]_vars

\* trigger on the prototype has run after a handler was registered on the
\* object derived from it, both holding a registry, and after K inherited
\* from P while P held a registry.
C11_Witness ==
    /\ lastReg.op = "trigger" /\ lastReg.obj = "base"
    /\ RegisteredOn(onLog, "derived") # <<>>
    /\ hasOwnEvents(ownEvents, "base") /\ hasOwnEvents(ownEvents, "derived")
    /\ hasOwnEvents(ownEvents, "P") /\ hasOwnEvents(ownEvents, "K")

\* C12: off(O, x) without a handler leaves no handler of x on O, and leaves
\* every other type of O and every other object as they were, in both
\* emitters.
C12_OffAllOnlyType ==
    [][ /\ (lib = "guid" /\ evLast'.op = "offAll")
            => /\ HandlersOf(events', evLast'.obj, evLast'.type) = <<>>
               /\ \A o \in EvObjs, t \in Types :
                     <<o, t>> # <<evLast'.obj, evLast'.type>>
                     => events'[o][t] = events[o][t]
        /\ (lib = "splice" /\ last2'.op = "offAll")
            => /\ events2'[last2'.obj].by[last2'.type].seq = <<>>
               /\ \A o \in Objs2, t \in Types2 :
                     <<o, t>> # <<last2'.obj, last2'.type>>
                     => events2'[o].by[t] = events2[o].by[t] ]_vars

\* off(O, x) has removed two handlers at once while O has a handler of
\* another type.
C12_Witness ==
    /\ evLast.op = "offAll" /\ Len(evLast.snap) = 2
    /\ events[evLast.obj][evLast.type].k = "none"
    /\ \E t \in PlainTypes : events[evLast.obj][t].k # "none"

\* The dispatch that is innermost, when there is one.
Top(st) == st[Len(st)]

Invoked2(c) == [k \in 1..Len(c.calls) |-> c.calls[k].h]

\* child.inherit(parent) has called handlers with this === parent and child
\* as payload, which found the statics copied, child.parent === parent and
\* child.prototype.constructor === child.
InheritedSeen(c) ==
    /\ \A k \in 1..Len(c.calls) :
          c.calls[k].this = c.fn /\ c.calls[k].args = <<c.obj>>
    /\ c.seen.parent = c.fn /\ c.seen.ctor = c.obj
    /\ fnGuid[c.fn] # 0 => c.seen.guid = fnGuid[c.fn]

-----------------------------------------------------------------------------
(* Claims on the queries of src/index.js *)

AncestorsRead == last.op = "ancestors"

\* The sequence t follows parent from its first element to null.
FollowsParent(os, fp, t) ==
    /\ \A k \in 1..(Len(t) - 1) : t[k + 1] = parentGetter(os, fp, t[k])
    /\ t # <<>> => parentGetter(os, fp, t[Len(t)]) = NoFn

\* C15: F.ancestors is the sequence F, F.parent, F.parent.parent, ... followed
\* until parent is null: the getter returns, its result starts with the
\* receiver and ends with Object.
C15_AncestorsFollowParent ==
    AncestorsRead
    => /\ last.outcome = "ok"
       /\ last.trace # <<>>
       /\ last.trace[1] = last.recv
       /\ last.trace[Len(last.trace)] = "Object"
       /\ FollowsParent(objs, fnProto, last.trace)

\* The walk along parent from F reaches null.
ReachesNull(os, fp, F) == ancestorsGetter(os, fp, F).outcome = "ok"

\* What C15 states, for the receivers from which parent leads to null.
AncestorsWhenAcyclic ==
    (AncestorsRead /\ ReachesNull(objs, fnProto, last.recv))
    => /\ last.outcome = "ok"
       /\ last.trace[1] = last.recv
       /\ last.trace[Len(last.trace)] = "Object"
       /\ FollowsParent(objs, fnProto, last.trace)

\* C16: the ancestors sequence never contains the receiver: for E extending
\* P extending Object, E.ancestors is [P, Object].
C16_ReceiverExcluded ==
    (AncestorsRead /\ last.outcome = "ok")
    => \A k \in 1..Len(last.trace) : last.trace[k] # last.recv

\* F has never been the receiver of inherit: inherit stamps the receiver when
\* it restores the constructor property.
NeverInherited(F) == stamp[F] = NoFn

\* C17: F.parent is Object for every function F that has never been the
\* receiver of inherit, whatever other classes were derived from it, and
\* Object.parent is null.
C17_TopLevelParent ==
    /\ \A F \in Live : NeverInherited(F) => parentGetter(objs, fnProto, F) = "Object"
    /\ parentGetter(objs, fnProto, "Object") = NoFn

\* A class never made to inherit has a child and a grandchild, another class
\* was made to inherit.
C17_Witness ==
    \E F \in Live, G \in Live, H \in Live :
        /\ NeverInherited(F) /\ ~NeverInherited(G) /\ ~NeverInherited(H)
        /\ G # H
        /\ parentGetter(objs, fnProto, G) = F
        /\ parentGetter(objs, fnProto, H) = G

\* What C18 states of a chain c inherits b inherits a and of a function o.
Relations(os, fp, a, b, c, o) ==
    /\ isParentOf(os, fp, a, b)
    /\ ~isParentOf(os, fp, a, c)
    /\ ~isParentOf(os, fp, a, o)
    /\ isAncestorOf(os, fp, a, b)
    /\ isAncestorOf(os, fp, a, c)
    /\ ~isAncestorOf(os, fp, a, o)

\* isChildOf and isDescendantOf are the converses of isParentOf, isAncestorOf.
Converses(os, fp) ==
    \A X \in Live \cup {"Object"}, Y \in Live \cup {"Object"} :
        /\ isChildOf(os, fp, X, Y) = isParentOf(os, fp, Y, X)
        /\ isDescendantOf(os, fp, X, Y) = isAncestorOf(os, fp, Y, X)

\* C18: for a chain C inherits B inherits A of distinct classes and a function
\* O that was never made to inherit, A.isParentOf(B) is true, A.isParentOf(C)
\* and A.isParentOf(O) are false, A.isAncestorOf(B) and A.isAncestorOf(C) are
\* true, A.isAncestorOf(O) is false, and isChildOf / isDescendantOf are the
\* converses.  The chain is B.inherit(A) followed by C.inherit(B), or any
\* state in which C.prototype was created from B.prototype and B.prototype
\* from A.prototype.
C18_DirectAndTransitive ==
    [][ /\ \A o \in Live :
              ( /\ InheritDone /\ last.recv # last.arg /\ last.arg \in Classes
                /\ last'.op = "inherit" /\ ~last'.threw
                /\ last'.arg = last.recv /\ last'.recv \notin {last.recv, last.arg}
                /\ o \notin {last.arg, last.recv, last'.recv}
                /\ NeverInherited(o) )
              => Relations(objs', fnProto', last.arg, last.recv, last'.recv, o)
        /\ \A a \in Live', b \in Live', c \in Live', o \in Live' :
              ( /\ a # b /\ b # c /\ a # c /\ o \notin {a, b, c}
                /\ isParentOf(objs', fnProto', a, b)
                /\ isParentOf(objs', fnProto', b, c)
                /\ NeverInherited(o)' )
              => Relations(objs', fnProto', a, b, c, o)
        /\ Converses(objs', fnProto') ]_vars

\* C.inherit(B) has just run, right after B.inherit(A), a fourth function
\* never having been made to inherit.
C18_Witness ==
    \E o \in Live :
        /\ InheritDone /\ last.recv # last.arg /\ last.arg \in Classes
        /\ o \notin {last.recv, last.arg, parentGetter(objs, fnProto, last.arg)}
        /\ NeverInherited(o)
        /\ parentGetter(objs, fnProto, last.arg) \in Classes \ {last.recv, last.arg}
        /\ isParentOf(objs, fnProto, parentGetter(objs, fnProto, last.arg), last.arg)
        /\ isAncestorOf(objs, fnProto, parentGetter(objs, fnProto, last.arg), last.recv)

\* The reading function has neither a recorded nor a declared name.
Anonymous(caller) == superKey(stamp, caller) = ""

\* The prototype above the one the reading function was defined on has no
\* member of the reading function's name.
ParentLacks(os, caller) ==
    Lookup(os, os[caller.at].proto, superKey(stamp, caller)) = NoMethod

MissOnOwnLevel ==
    ( /\ last.op = "super" /\ objs[last.inst].proto = last.caller.at
      /\ (Anonymous(last.caller) \/ ParentLacks(objs, last.caller)) )
    => ~last.threw /\ last.result = NoMethod

\* Both cases of C19 happen: an anonymous function and a named function whose
\* class inherits from one without the member have read this.super.
MissCases ==
    /\ last.op = "super" /\ objs[objs[last.inst].proto].super # Null
    /\ \/ Anonymous(last.caller) /\ ~ParentLacks(objs, [last.caller EXCEPT !.name = "m"])
       \/ ~Anonymous(last.caller) /\ ParentLacks(objs, last.caller)

-----------------------------------------------------------------------------
(* Claims on extend *)

\* The step is a call of extend.
ExtendStep == last'.op = "extend"

\* The step leaves the prototype object and the parent of F as they were.
Untouched(F) ==
    /\ fnProto'[F] = fnProto[F]
    /\ parentGetter(objs', fnProto', F) = parentGetter(objs, fnProto, F)

\* C20 as stated: every call of extend returns an entity that did not exist
\* before the call and changes the parent and the prototype object of no
\* class that existed.
C20_AlwaysBrandNew ==
    [][ ExtendStep
        => /\ last'.arg \notin Live
           /\ \A F \in Live : Untouched(F) ]_vars

\* C20, amended: extend returns properties.constructor when properties has
\* one of its own, and a brand-new function otherwise; a function written in
\* the call or made by extend is distinct from every entity that existed, and
\* no class other than the one returned has its parent or prototype object
\* changed.
C20_NewUnlessGiven ==
    [][ ExtendStep
        => /\ last'.given # NoFn => last'.arg = last'.given
           /\ last'.given = NoFn => last'.arg \notin Live
           /\ last'.arg \in Live'
           /\ parentGetter(objs', fnProto', last'.arg) = last'.recv
           /\ \A F \in Live \ {last'.arg} : Untouched(F) ]_vars

\* extend without a constructor has returned its second new class, after an
\* extend that was given an existing class.
C20_Witness ==
    /\ last.op = "extend" /\ last.given = NoFn
    /\ Cardinality(born) = 2
    /\ \E F \in Roots : ~NeverInherited(F)

-----------------------------------------------------------------------------
(* Claims on mixins, Object.is and initialize *)

MixinDone == last3.op = "mixin"

\* The step is a call of Object.mixin: it alone appends to a mixin record.
MixinStep == last3'.op = "mixin" /\ heap3' # heap3

\* The own enumerable members of fn.prototype are own members of o.
Copied(h, pf, o, fn) ==
    \A n \in Members3 :
        (h[pf[fn]].own[n].has /\ h[pf[fn]].own[n].enum)
        => h[o].own[n].has /\ h[o].own[n].at = h[pf[fn]].own[n].at

\* C21: Object.mixin(obj, fn, args...) appends fn to the record of obj, copies
\* the own enumerable properties of fn.prototype onto obj, applies fn with
\* this === obj and exactly args, and triggers "mixedIn" on fn with obj as
\* payload, in this order: fn finds itself recorded and the properties copied,
\* the handlers find fn applied.  Afterwards mixesIn(obj, fn) is true and
\* obj instanceof fn is what it was (false if it was false).
C21_MixinInOrder ==
    [][ MixinStep
        => LET o == last3'.obj
               fn == last3'.fn
           IN /\ heap3'[o].mixins.seq = Append(heap3[o].mixins.seq, fn)
              /\ Copied(heap3', protoOf3', o, fn)
              /\ last3'.applied.this = o /\ last3'.applied.args = last3'.args
              /\ last3'.applied.mixins = heap3'[o].mixins.seq
              /\ last3'.applied.m = Get3(heap3', o, "m")
              /\ \A k \in 1..Len(last3'.calls) :
                    /\ last3'.calls[k].this = fn
                    /\ last3'.calls[k].args = <<o>>
              /\ last3'.calls # <<>> => last3'.handlerSaw
              /\ mixedInHandlers(fn) # <<>> => last3'.calls # <<>>
              /\ mixesIn(heap3', o, fn)
              /\ instanceOf3(heap3', protoOf3', o, fn)
                    = instanceOf3(heap3, protoOf3, o, fn) ]_vars

\* Object.mixin(obj, fn, a1) has run, fn.prototype having a method that was
\* copied and fn a "mixedIn" handler that was called; obj is no instance of fn.
C21_Witness ==
    /\ MixinDone /\ last3.args # <<>>
    /\ last3.applied.m = protoOf3[last3.fn]
    /\ last3.calls # <<>>
    /\ ~instanceOf3(heap3, protoOf3, last3.obj, last3.fn)

\* C22: for every function fn whose prototype has an own method m, put there
\* by assignment or by extend({m: ...}), after Object.mixin(obj, fn) obj.m is
\* fn.prototype.m.
C22_MixedMethodCallable ==
    (MixinDone /\ heap3[protoOf3[last3.fn]].own["m"].has)
    => Get3(heap3, last3.obj, "m") = heap3[protoOf3[last3.fn]].own["m"].at

IsDone == last3.op = "is"

\* C23: Object.is(obj, fn) is true exactly when obj instanceof fn holds or fn
\* is in the mixin record of obj: true for direct instances of fn, for
\* instances of a function that inherits from fn and for objects that mixed
\* fn in, false for the instances of other functions that did not.
C23_IsInstanceOrMixin ==
    IsDone
    => LET o == last3.obj
           fn == last3.fn
           mixed == \E k \in 1..Len(heap3[o].mixins.seq) : heap3[o].mixins.seq[k] = fn
           direct == heap3[o].kind = "inst" /\ heap3[o].proto = protoOf3[fn]
           indirect == \E c \in Live3 \ {fn} :
                          /\ heap3[o].proto = protoOf3[c]
                          /\ \E k \in 1..Len(Chain3(heap3, protoOf3[c])) :
                                Chain3(heap3, protoOf3[c])[k] = protoOf3[fn]
       IN /\ last3.result = (instanceOf3(heap3, protoOf3, o, fn) \/ mixed)
          /\ (direct \/ indirect \/ mixed) => last3.result
          /\ (~direct /\ ~indirect /\ ~mixed) => ~last3.result

\* Object.is has answered true for an instance of one function that mixed
\* another in, and the instance is no instanceof the other.
C23_Witness ==
    /\ IsDone /\ last3.result
    /\ heap3[last3.obj].kind = "inst"
    /\ ~instanceOf3(heap3, protoOf3, last3.obj, last3.fn)

\* C24: constructing an instance of a function returned by extend invokes
\* initialize exactly once, with this === the new instance and all the
\* constructor arguments, when the prototype chain of the instance provides a
\* function initialize (own or inherited); when it provides none, nothing is
\* invoked.
C24_AutoInitialize ==
    (last3.op = "new" /\ last3.fn \in made3)
    => IF Get3(heap3, last3.obj, "initialize") # 0
       THEN last3.inits = <<[fn |-> Get3(heap3, last3.obj, "initialize"),
                             this |-> last3.obj, args |-> last3.args]>>
       ELSE last3.inits = <<>>

\* An instance was constructed with an argument from a function returned by
\* extend whose own prototype has no initialize, an ancestor's has.
C24_Witness ==
    /\ last3.op = "new" /\ last3.fn \in made3 /\ last3.args # <<>>
    /\ ~heap3[protoOf3[last3.fn]].own["initialize"].has
    /\ Len(last3.inits) = 1

-----------------------------------------------------------------------------
(* Claims on dispatch in the second revision *)

\* C25: when three handlers h1, h2, h3 are registered for a type and h1 calls
\* off(object, type, h1) on itself during trigger, h2 and h3 are each still
\* invoked exactly once, in that order, and trigger returns without throwing.
C25_SelfOffKeepsOthers ==
    ( /\ last2.op = "trigger"
      /\ Len(last2.before) = 3
      /\ Cardinality({last2.before[k] : k \in 1..3}) = 3
      /\ last2.does[last2.before[1]] = "offSelf"
      /\ last2.does[last2.before[2]] = "none"
      /\ last2.does[last2.before[3]] = "none" )
    => /\ ~last2.threw
       /\ last2.calls = last2.before

-----------------------------------------------------------------------------
(* Claims on what inherit changes *)

\* A step that is a call child.inherit(parent), parent a function.
InheritStep == last'.op = "inherit" /\ Len(objs') = Len(objs) + 1

\* C26: child.inherit(parent) mutates only child: parent's own properties and
\* their values, the identity and the members of parent.prototype, and
\* parent.parent are the same after the call as before it.
C26_InheritMutatesOnlyChild ==
    [][InheritStep =>
        LET parent == last'.arg
        IN /\ statics'[parent] = statics[parent]
           /\ stamp'[parent] = stamp[parent]
           /\ fnProto'[parent] = fnProto[parent]
           /\ objs'[fnProto[parent]] = objs[fnProto[parent]]
           /\ parentGetter(objs', fnProto', parent)
                = parentGetter(objs, fnProto, parent)]_vars

\* What the claim says of the call child.inherit(parent), between the heap
\* before it and the heap after it.
FreshPrototype(child, parent) ==
    /\ fnProto'[child] \notin 1..Len(objs)
    /\ \A i \in 1..Len(objs) :
          objs[i].kind = "inst" =>
             /\ ChainOf(objs', i) = ChainOf(objs, i)
             /\ ~instanceOf(objs, fnProto, i, parent)
                   => ~instanceOf(objs', fnProto', i, parent)
             /\ ~instanceOf(objs', fnProto', i, child)
    /\ objs[fnProto[child]].m # NoMethod
          => Lookup(objs', fnProto'[child], "m") # objs[fnProto[child]].m

ParentReachesChild(child, parent) ==
    \E k \in 1..Len(ChainOf(objs, fnProto[parent])) :
        ChainOf(objs, fnProto[parent])[k] = fnProto[child]

C28_AncestorsTerminate ==
    AncestorsRead
    => /\ last.outcome = "ok"
       /\ \A j, k \in 1..Len(last.trace) :
             last.trace[j] = last.trace[k] => j = k

\* C29: the constructor-based getter and the prototype-based predicate always
\* agree: in every state reachable by inherit calls (re-inheriting a class
\* that already has children among them), for all functions A and B,
\* B.parent === A if and only if A.isParentOf(B).
C29_ParentIffIsParentOf ==
    \A A2, B2 \in Live \cup {"Object"} :
        (parentGetter(objs, fnProto, B2) = A2) <=> isParentOf(objs, fnProto, A2, B2)

-----------------------------------------------------------------------------
(* Claims on the registry as a list of handlers *)

\* Every entry is absent, one function, or an array of at least two.
EntryShapes ==
    \A o \in EvObjs, t \in AllTypes :
        \/ events[o][t].k = "none" /\ events[o][t].seq = <<>>
        \/ events[o][t].k = "fn" /\ Len(events[o][t].seq) = 1
        \/ events[o][t].k = "arr" /\ Len(events[o][t].seq) >= 2

\* The list registry: on appends, off removes the handler wherever it is,
\* off without a handler empties the list, trigger invokes the list.
ListOn(q, h) == Append(q, h)
ListOff(q, h) == SelectSeq(q, LAMBDA x : x # h)

\* A step of the emitter on the types ts is the step the list registry makes
\* for the same call, the list of a type being what its entry denotes.
StepRefines(ts) ==
    LET o == evLast'.obj
        t == evLast'.type
        was == HandlersOf(events, o, t)
        now == HandlersOf(events', o, t)
        top == stack'[Len(stack')]
    IN /\ (evLast'.op = "on" /\ t \in ts) => now = ListOn(was, evLast'.h)
       /\ (evLast'.op = "off" /\ t \in ts) => now = ListOff(was, evLast'.h)
       /\ (evLast'.op = "offAll" /\ t \in ts) => now = <<>>
       /\ (evLast'.op = "trigger" /\ Len(stack') = Len(stack) /\ t \in ts)
             => was = <<>>
       /\ (evLast'.op = "enter" /\ Len(stack') > Len(stack) /\ top.type \in ts)
             => top.seq = HandlersOf(events, top.obj, top.type)
       /\ \A o2 \in EvObjs, t2 \in AllTypes :
             (evLast'.op \notin {"on", "off", "offAll"} \/ <<o2, t2>> # <<o, t>>)
                => events'[o2][t2] = events[o2][t2]

\* C30: the single-listener-optimised registry refines a plain ordered-list
\* registry: after any sequence of on and off calls each type's entry is
\* absent, a single function, or an array of at least two functions, and it
\* denotes the same handler sequence as a list driven by the same calls, so
\* trigger invokes the same handlers in the same order in both.
C30_RegistryRefinesList == []EntryShapes /\ [][StepRefines(AllTypes)]_vars

\* The same for the types that are not named like a property of
\* Object.prototype.
RefinesListOnPlainTypes == []EntryShapes /\ [][StepRefines(Types)]_vars

====
